---------------------------- MODULE Spec2Model ----------------------------
(***************************************************************************)
(* GuardNet DNS filter: the UDP request path (dns.Server), the threat      *)
(* table (db.ThreatDB / db.Connection), the response cache                 *)
(* (cache.RedisClient, cache.MockRedisClient), the upstream forwarder, and  *)
(* the threat-updater process (feeds.FeedManager, feeds.AdBlockManager,    *)
(* ThreatDB.BatchInsertThreats, ThreatDB.CleanupOldThreats).               *)
(*                                                                         *)
(* Strings are sequences of one-character strings, so that ToLower,        *)
(* TrimSuffix, Split and Join are computed as the Go code computes them.   *)
(* Time is counted in minutes.                                             *)
(***************************************************************************)
EXTENDS Integers, Sequences, FiniteSets, TLC

VARIABLES
    now,          \* wall clock (time.Now / NOW()), in minutes
    used,         \* clock advances, table commits and messages so far (bound the exploration)
    threatTable,  \* threat_domains: domain -> row, or NoRow
    cache,        \* Redis keyspace: key -> [value, expiry], or NoEntry
    H,            \* per handler goroutine: locals of handleDNSRequest and its callees
    logInFlight,  \* goroutines started by logDNSQuery that have not returned
    logStalled,   \* the dns_logs writer is stalled (INSERT does not return)
    updater,      \* the threat-updater process: main's select loop, performUpdate, the feed managers
    mock,         \* a MockRedisClient: its data map and the result of the last call
    api,          \* the last call of an operation made on its own: arguments, state before, result
    server,       \* the dns-filter daemon: its configuration and the life cycle of dns.Server
    goroutines,   \* goroutines that call one mock object concurrently, and what they share
    redis         \* a RedisClient and its Redis server: the keyspace and the result of the last call

vars == <<now, used, threatTable, cache, H, logInFlight, logStalled, updater, mock, api, server,
          goroutines, redis>>

---------------------------------------------------------------------------
(* Bounds of the exploration *)

MaxTicks == 1
MaxCommits == 1
MaxMsgs == 2

---------------------------------------------------------------------------
(* Program constants *)

TTLBlocked == 60        \* time.Hour
TTLAllowed == 30        \* 30*time.Minute
FreshWindow == 43200    \* INTERVAL '30 days'
Threshold == 70         \* confidence >= 0.70, in hundredths (DECIMAL(3,2))
RcodeSuccess == 0
RcodeServerFailure == 2
RcodeNameError == 3

\* a process or an object that takes no part in a specification
Absent == <<>>

Handlers == {"h1"}

\* s.upstreams, in configured order
Upstreams == <<"1.1.1.1:53", "8.8.8.8:53">>

---------------------------------------------------------------------------
(* Strings *)

Str_abc == <<"a", ".", "b", ".", "c">>
Str_ABCdot == <<"A", ".", "b", ".", "c", ".">>
Str_bc == <<"b", ".", "c">>
Str_c == <<"c">>
Str_d == <<"d">>

\* names that clients put in questions
QNames == {Str_abc, Str_ABCdot, Str_d}

\* unicode.ToLower on the letters that occur
LowerChar(ch) ==
    IF ch = "A" THEN "a"
    ELSE IF ch = "B" THEN "b"
    ELSE IF ch = "C" THEN "c"
    ELSE IF ch = "D" THEN "d"
    ELSE ch

\* strings.ToLower
ToLower(s) == [k \in 1..Len(s) |-> LowerChar(s[k])]

\* strings.TrimSuffix(s, "."): removes one trailing dot
TrimSuffixDot(s) ==
    IF Len(s) > 0 /\ s[Len(s)] = "." THEN SubSeq(s, 1, Len(s) - 1) ELSE s

\* dns.Fqdn: appends a dot unless the name ends in one
Fqdn(s) ==
    IF Len(s) > 0 /\ s[Len(s)] = "." THEN s ELSE Append(s, ".")

RECURSIVE SplitFrom(_, _, _)
\* strings.Split(s, "."), scanning from position k with the label cur open
SplitFrom(s, k, cur) ==
    IF k > Len(s) THEN <<cur>>
    ELSE IF s[k] = "." THEN <<cur>> \o SplitFrom(s, k + 1, <<>>)
    ELSE SplitFrom(s, k + 1, Append(cur, s[k]))

Split(s) == SplitFrom(s, 1, <<>>)

RECURSIVE Join(_)
\* strings.Join(parts, ".")
Join(parts) ==
    IF Len(parts) = 0 THEN <<>>
    ELSE IF Len(parts) = 1 THEN parts[1]
    ELSE parts[1] \o <<".">> \o Join(Tail(parts))

\* domain := strings.ToLower(strings.TrimSuffix(question.Name, "."))
NormalizeName(name) == ToLower(TrimSuffixDot(name))

\* cacheKey := fmt.Sprintf("domain:%s", domain)
CacheKey(domain) == <<"domain:">> \o domain

\* parentDomain := strings.Join(parts[i:], ".")
ParentDomain(domain, i) ==
    LET parts == Split(domain) IN Join(SubSeq(parts, i + 1, Len(parts)))

\* number of labels: len(strings.Split(domain, "."))
NumParts(domain) == Len(Split(domain))

\* The same computations, tabulated once over the names that occur:
\* the domain of a question name, parts[i:] joined, and len(parts)
Domains == {NormalizeName(q) : q \in QNames}

domainOf == [q \in QNames |-> NormalizeName(q)]

numPartsOf == [d \in Domains |-> NumParts(d)]

parentDomainOf == [d \in Domains |-> [i \in 0..(NumParts(d) - 1) |-> ParentDomain(d, i)]]

---------------------------------------------------------------------------
(* Threat table: threat_domains, domain UNIQUE *)

NoRow == [present |-> FALSE]

\* feeds.ThreatEntry values that ingestion can deliver (confidence in hundredths)
FeedEntries ==
    { [domain |-> Str_abc, threatType |-> "malware", confidence |-> 70],
      [domain |-> Str_bc, threatType |-> "ads", confidence |-> 90],
      [domain |-> Str_bc, threatType |-> "ads", confidence |-> 69],
      [domain |-> Str_c, threatType |-> "spam", confidence |-> 70] }

TableDomains == {e.domain : e \in FeedEntries}

\* every string CheckThreatDomain can be called with
LookupDomains ==
    UNION { {parentDomainOf[d][i] : i \in 0..(numPartsOf[d] - 1)} : d \in Domains }

Row(d) == IF d \in TableDomains THEN threatTable[d] ELSE NoRow

\* WHERE domain = $1 AND created_at > NOW() - INTERVAL '30 days'
\* ORDER BY confidence_score DESC LIMIT 1   (sql.ErrNoRows -> false, "", 0)
IsThreatDomain(domain) ==
    LET r == Row(domain) IN
    IF r.present /\ r.created_at > now - FreshWindow
    THEN [found |-> TRUE, threatType |-> r.threat_type, confidence |-> r.confidence]
    ELSE [found |-> FALSE, threatType |-> "", confidence |-> 0]

\* CheckThreatDomain with the threshold test written confidence > 0.70
CheckThreatDomainStrict(domain) ==
    LET t == IsThreatDomain(domain) IN
    IF t.found /\ t.confidence > Threshold THEN t.threatType ELSE ""

\* Connection.CheckThreatDomain without a query error: the threat type, or ""
CheckThreatDomain(domain) ==
    LET t == IsThreatDomain(domain) IN
    IF t.found /\ t.confidence >= Threshold THEN t.threatType ELSE ""

\* Connection.CheckThreatDomain as internal/db/connection.go has it, with its
\* own query:  WHERE domain = $1 AND confidence_score > 0.7 LIMIT 1
CheckThreatDomainQuery(domain) ==
    LET r == Row(domain) IN
    IF r.present /\ r.confidence > Threshold THEN r.threat_type ELSE ""

\* the two Connection types the repository holds
Connections == {"threatDB", "query"}

\* BatchInsertThreats: one COPY in one transaction, created_at = updated_at = now.
\* A row that violates UNIQUE(domain) fails the COPY, and the deferred Rollback
\* leaves the table as it was.
BatchInsertThreats(entries) ==
    /\ entries # {}
    /\ used.commits < MaxCommits
    /\ used' = [used EXCEPT !.commits = used.commits + 1]
    /\ LET clash == \/ \E e \in entries : threatTable[e.domain].present
                    \/ \E e1, e2 \in entries : e1 # e2 /\ e1.domain = e2.domain
       IN threatTable' =
            IF clash THEN threatTable
            ELSE [d \in TableDomains |->
                    IF \E e \in entries : e.domain = d
                    THEN LET e == CHOOSE x \in entries : x.domain = d IN
                         [present |-> TRUE, threat_type |-> e.threatType,
                          confidence |-> e.confidence,
                          created_at |-> now, updated_at |-> now]
                    ELSE threatTable[d]]
    /\ UNCHANGED <<now, cache, H, logInFlight, logStalled, updater, mock, api, server, goroutines, redis>>

\* no call made yet
NoCall == [op |-> "none", arg |-> <<>>, before |-> <<>>, at |-> 0, out |-> <<>>]

\* a call of an operation on its own: what it was given, the state it found,
\* and what it returned
Call(op, arg, before, out) ==
    api' = [op |-> op, arg |-> arg, before |-> before, at |-> now, out |-> out]

\* the row UpdateThreatEntry leaves for the entry's domain:
\* INSERT ... ON CONFLICT (domain) DO UPDATE SET threat_type, confidence_score =
\* GREATEST(old, new), source, updated_at   -- created_at stays
UpsertRow(old, entry) ==
    IF old.present
    THEN [present |-> TRUE, threat_type |-> entry.threatType,
          confidence |-> IF old.confidence >= entry.confidence
                         THEN old.confidence ELSE entry.confidence,
          created_at |-> old.created_at, updated_at |-> now]
    ELSE [present |-> TRUE, threat_type |-> entry.threatType,
          confidence |-> entry.confidence,
          created_at |-> now, updated_at |-> now]

\* ThreatDB.UpdateThreatEntry(entry)
UpdateThreatEntry(entry) ==
    /\ threatTable' = [threatTable EXCEPT
            ![entry.domain] = UpsertRow(threatTable[entry.domain], entry)]
    /\ Call("UpdateThreatEntry", entry, threatTable, <<>>)
    /\ UNCHANGED <<now, used, cache, H, logInFlight, logStalled, updater, mock, server, goroutines, redis>>

\* one call of Connection.CheckThreatDomain(domain), without a query error
CheckThreatDomainCall(conn, domain) ==
    /\ Call("CheckThreatDomain", [conn |-> conn, domain |-> domain], threatTable,
            IF conn = "threatDB" THEN CheckThreatDomain(domain)
            ELSE CheckThreatDomainQuery(domain))
    /\ UNCHANGED <<now, used, threatTable, cache, H, logInFlight, logStalled,
                   updater, mock, server, goroutines, redis>>

---------------------------------------------------------------------------
(* Response cache: the Redis keyspace behind cache.RedisClient *)

NoEntry == [present |-> FALSE]

CacheKeys == {CacheKey(d) : d \in Domains \cup LookupDomains}

\* a key is visible until its expiry instant
Visible(k) == cache[k].present /\ now < cache[k].expiry

\* RedisClient.Get without a connection error: the value, or "" for a key
\* that is not there (redis.Nil, returned as a "key not found" error)
CacheGet(k) == IF Visible(k) THEN cache[k].value ELSE ""

\* RedisClient.Set(key, value, expiration): SET key value EX expiration
CacheSet(k, value, expiration) ==
    [cache EXCEPT ![k] = [present |-> TRUE, value |-> value, expiry |-> now + expiration]]

\* time passes; Redis drops the keys whose expiry has been reached
Tick(dt) ==
    /\ used.ticks < MaxTicks
    /\ used' = [used EXCEPT !.ticks = used.ticks + 1]
    /\ now' = now + dt
    /\ cache' = [k \in CacheKeys |->
            IF cache[k].present /\ now + dt < cache[k].expiry THEN cache[k] ELSE NoEntry]
    /\ UNCHANGED <<threatTable, H, logInFlight, logStalled, updater, mock, api, server, goroutines, redis>>

---------------------------------------------------------------------------
(* What the design calls a blockable row, read off the table itself *)

\* Glossary: confidence >= 0.70 and updated_at within 30 days
BlockableRow(d) ==
    /\ Row(d).present
    /\ Row(d).confidence >= Threshold
    /\ now - Row(d).updated_at < FreshWindow

\* the same with the column the lookup filters on
BlockableByCreation(d) ==
    /\ Row(d).present
    /\ Row(d).confidence >= Threshold
    /\ now - Row(d).created_at < FreshWindow

\* the proper suffixes of a domain: parts[i:] for 1 <= i < len(parts)
ProperSuffixes(domain) == {parentDomainOf[domain][i] : i \in 1..(numPartsOf[domain] - 1)}

---------------------------------------------------------------------------
(* DNS messages *)

\* question sections of the messages clients send: none, one or two questions
Messages ==
    {<<>>} \cup {<<n>> : n \in QNames} \cup {<<Str_d, Str_abc>>, <<Str_abc, Str_d>>}

\* the ids clients use
MsgIds == {1, 2}

NoMsg == [id |-> 0, question |-> <<>>, answer |-> <<>>, ns |-> <<>>, extra |-> <<>>,
          rcode |-> RcodeSuccess,
          response |-> FALSE, authoritative |-> FALSE, recursionAvailable |-> FALSE]

\* msg := dns.Msg{}; msg.SetReply(r); msg.Authoritative = false;
\* msg.RecursionAvailable = true.  miekg/dns SetReply copies the id, sets the
\* QR bit and Rcode = Success, and copies the first question only.
SetReply(req) ==
    [id |-> req.id,
     question |-> IF Len(req.question) > 0 THEN <<req.question[1]>> ELSE <<>>,
     answer |-> <<>>, ns |-> <<>>, extra |-> <<>>, rcode |-> RcodeSuccess,
     response |-> TRUE, authoritative |-> FALSE, recursionAvailable |-> TRUE]

\* what one client.Exchange(msg, upstream) can come back with
Outcomes == {"timeout", "answer", "nodata", "nxdomain"}

\* the answer records of an upstream reply with records
UpstreamAnswer(domain, u) == <<[name |-> Fqdn(domain), from |-> Upstreams[u]]>>

\* an upstream reply with records: the answer section and, beside it, the
\* authority (response.Ns) and additional (response.Extra) sections
UpstreamReply(domain, u) ==
    [answer |-> UpstreamAnswer(domain, u),
     ns |-> <<[name |-> Fqdn(domain), ns |-> Upstreams[u]]>>,
     extra |-> <<[name |-> Fqdn(domain), glue |-> Upstreams[u]]>>]

---------------------------------------------------------------------------
(* Handler goroutines *)

ZeroCounts == [queries |-> 0, blocked |-> 0, allowed |-> 0, errors |-> 0, cacheHits |-> 0]

AddCounts(a, b) ==
    [queries |-> a.queries + b.queries, blocked |-> a.blocked + b.blocked,
     allowed |-> a.allowed + b.allowed, errors |-> a.errors + b.errors,
     cacheHits |-> a.cacheHits + b.cacheHits]

Inc(field) == [ZeroCounts EXCEPT ![field] = 1]

IdleHandler ==
    [pc |-> "idle",
     req |-> [id |-> 0, question |-> <<>>],
     qi |-> 0, domain |-> <<>>, i |-> 0, up |-> 0,
     pend |-> [value |-> "", threatType |-> ""],
     msg |-> NoMsg,
     \* what the handler has done for the current question
     cacheRes |-> "none", lookups |-> <<>>, sets |-> <<>>, exch |-> <<>>, ret |-> "none",
     \* whether the table held a blockable row for the domain, and the proper
     \* suffixes it held one for, when the question was taken up
     startBlockable |-> FALSE, startSuffix |-> {},
     \* what it has done for the message
     verdicts |-> <<>>, delta |-> ZeroCounts, logged |-> 0,
     cache0 |-> <<>>, writes |-> 0, writeErr |-> FALSE, sent |-> NoMsg]

\* a step of a handler: its new locals, the counters it increments and the
\* number of logDNSQuery goroutines it starts
Step(r, inc, logs) == [r |-> r, inc |-> inc, logs |-> logs]

\* top of the loop over r.Question, or the end of the loop
NextQuestion(r) ==
    IF r.qi < Len(r.req.question)
    THEN [r EXCEPT !.qi = r.qi + 1,
                   !.domain = domainOf[r.req.question[r.qi + 1]],
                   !.pc = "cache", !.i = 0, !.up = 0,
                   !.cacheRes = "none", !.lookups = <<>>, !.sets = <<>>,
                   !.exch = <<>>, !.ret = "none",
                   !.startBlockable = BlockableRow(domainOf[r.req.question[r.qi + 1]]),
                   !.startSuffix =
                       {p \in ProperSuffixes(domainOf[r.req.question[r.qi + 1]]) :
                           BlockableRow(p)}]
    ELSE [r EXCEPT !.pc = "write"]

\* handleDNSRequest after shouldBlockDomain has returned (blocked, threatType, err)
AfterClassify(r, blocked, threatType, err) ==
    LET e == IF err THEN Inc("errors") ELSE ZeroCounts IN
    IF blocked
    THEN Step([r EXCEPT !.msg.rcode = RcodeNameError, !.pc = "write",
                        !.ret = IF err THEN "error" ELSE "blocked",
                        !.verdicts = Append(r.verdicts, "blocked")],
              AddCounts(e, Inc("blocked")), 1)
    ELSE Step([r EXCEPT !.pc = "exchange", !.up = 1,
                        !.ret = IF err THEN "error" ELSE "allowed",
                        !.verdicts = Append(r.verdicts, "allowed")],
              e, 0)

---------------------------------------------------------------------------
(* Server.shouldBlockDomain, one collaborator call per step *)

\* the name looked up at loop position i (0: the domain itself)
LookupName(r) == IF r.i = 0 THEN r.domain ELSE parentDomainOf[r.domain][r.i]

\* for i := 1; i < len(parts); i++ { ... }  then cache as allowed
ParentLoop(r, i) ==
    IF i < numPartsOf[r.domain]
    THEN [r EXCEPT !.i = i, !.pc = "lookup"]
    ELSE [r EXCEPT !.pc = "set", !.pend = [value |-> "allowed", threatType |-> ""]]

\* the cache read that serves only a cached "blocked": a cached "allowed" is
\* looked up again
AfterCacheGetServesBlockedOnly(r, cached, err) ==
    LET r1 == [r EXCEPT !.cacheRes = IF err THEN "err"
                                     ELSE IF cached = "" THEN "miss" ELSE cached]
    IN
    IF ~err /\ cached = "blocked" THEN AfterClassify(r1, TRUE, "cached", FALSE)
    ELSE Step([r1 EXCEPT !.pc = "lookup", !.i = 0], ZeroCounts, 0)

\* the cache read whose error is returned to the handler
AfterCacheGetReturnsError(r, cached, err) ==
    LET r1 == [r EXCEPT !.cacheRes = IF err THEN "err"
                                     ELSE IF cached = "" THEN "miss" ELSE cached]
    IN
    IF err THEN AfterClassify(r1, FALSE, "", TRUE)
    ELSE IF cached = "blocked" THEN AfterClassify(r1, TRUE, "cached", FALSE)
    ELSE IF cached = "allowed" THEN AfterClassify(r1, FALSE, "", FALSE)
    ELSE Step([r1 EXCEPT !.pc = "lookup", !.i = 0], ZeroCounts, 0)

\* if cached, err := s.cache.Get(cacheKey); err == nil && cached != "" { ... }
AfterCacheGet(r, cached, err) ==
    LET r1 == [r EXCEPT !.cacheRes = IF err THEN "err"
                                     ELSE IF cached = "" THEN "miss" ELSE cached]
    IN
    IF ~err /\ cached = "blocked" THEN AfterClassify(r1, TRUE, "cached", FALSE)
    ELSE IF ~err /\ cached = "allowed" THEN AfterClassify(r1, FALSE, "", FALSE)
    ELSE Step([r1 EXCEPT !.pc = "lookup", !.i = 0], ZeroCounts, 0)

\* threatType, err := s.database.CheckThreatDomain(...) for the domain (i = 0)
\* or for a parent domain (i >= 1)
AfterLookup(r, threatType, err) ==
    IF r.i = 0
    THEN IF err THEN AfterClassify(r, FALSE, "", TRUE)
         ELSE IF threatType # ""
         THEN Step([r EXCEPT !.pc = "set",
                             !.pend = [value |-> "blocked", threatType |-> threatType]],
                   ZeroCounts, 0)
         ELSE Step(ParentLoop(r, 1), ZeroCounts, 0)
    ELSE IF err THEN Step(ParentLoop(r, r.i + 1), ZeroCounts, 0)
         ELSE IF threatType # ""
         THEN Step([r EXCEPT !.pc = "set",
                             !.pend = [value |-> "blocked", threatType |-> threatType]],
                   ZeroCounts, 0)
         ELSE Step(ParentLoop(r, r.i + 1), ZeroCounts, 0)

\* one expiration for both values
SetTTLOneHour(value) == TTLBlocked

\* s.cache.Set(cacheKey, "blocked", time.Hour) / s.cache.Set(cacheKey, "allowed", 30*time.Minute)
SetTTL(value) == IF value = "blocked" THEN TTLBlocked ELSE TTLAllowed

\* the Set keyed by the name that matched instead of the queried name
SetKeyOfMatch(r) == CacheKey(LookupName(r))

\* the key shouldBlockDomain writes
SetKey(r) == CacheKey(r.domain)

\* return true, threatType, nil / return false, "", nil   after the Set
AfterCacheSet(r) == AfterClassify(r, r.pend.value = "blocked", r.pend.threatType, FALSE)

---------------------------------------------------------------------------
(* Server.forwardToUpstream and the rest of the question loop *)

\* the loop without the NameError case: NXDOMAIN moves on to the next upstream
ForwardDecisionSkipsNameError(outcome) ==
    IF outcome = "answer" THEN "return_answer" ELSE "continue"

\* what the loop over s.upstreams does with one exchange:
\* return the answer, return nil (NXDOMAIN), or go on to the next upstream
ForwardDecision(outcome) ==
    IF outcome = "timeout" THEN "continue"
    ELSE IF outcome = "answer" THEN "return_answer"
    ELSE IF outcome = "nxdomain" THEN "return_nil"
    ELSE "continue"

\* handleDNSRequest around forwardToUpstream with the forwarder error ignored:
\* neither DNSErrors.Inc() nor msg.Rcode = dns.RcodeServerFailure
AfterExchangeIgnoresError(r, outcome) ==
    LET r1 == [r EXCEPT !.exch = Append(r.exch, [up |-> r.up, outcome |-> outcome])]
        d == ForwardDecision(outcome)
    IN
    IF d = "return_answer"
    THEN Step(NextQuestion([r1 EXCEPT !.msg.answer = r.msg.answer \o UpstreamAnswer(r.domain, r.up)]),
              Inc("allowed"), 1)
    ELSE IF d = "return_nil"
    THEN Step(NextQuestion(r1), ZeroCounts, 0)
    ELSE IF r.up < Len(Upstreams)
    THEN Step([r1 EXCEPT !.up = r.up + 1], ZeroCounts, 0)
    ELSE Step([r1 EXCEPT !.pc = "write"], ZeroCounts, 0)

\* handleDNSRequest around forwardToUpstream
AfterExchange(r, outcome) ==
    LET r1 == [r EXCEPT !.exch = Append(r.exch, [up |-> r.up, outcome |-> outcome])]
        d == ForwardDecision(outcome)
    IN
    IF d = "return_answer"
    THEN Step(NextQuestion([r1 EXCEPT !.msg.answer = r.msg.answer \o UpstreamAnswer(r.domain, r.up)]),
              Inc("allowed"), 1)
    ELSE IF d = "return_nil"
    THEN Step(NextQuestion(r1), ZeroCounts, 0)
    ELSE IF r.up < Len(Upstreams)
    THEN Step([r1 EXCEPT !.up = r.up + 1], ZeroCounts, 0)
    ELSE Step([r1 EXCEPT !.msg.rcode = RcodeServerFailure, !.pc = "write"],
              Inc("errors"), 0)

\* if err := w.WriteMsg(&msg); err != nil { s.metrics.DNSErrors.Inc() }
AfterWrite(r, err) ==
    Step([r EXCEPT !.pc = "done", !.writes = r.writes + 1, !.writeErr = err,
                   !.sent = r.msg],
         IF err THEN Inc("errors") ELSE ZeroCounts, 0)

---------------------------------------------------------------------------
(* Actions *)

\* logDNSQuery without the go statement: the handler runs the INSERT itself
\* and goes on only when it has returned
logDNSQuerySynchronous(n) ==
    /\ n = 0 \/ ~logStalled
    /\ logInFlight' = logInFlight

\* logDNSQuery: go func() { s.database.LogDNSQuery(...) }()  -- never waited for
logDNSQuery(n) == logInFlight' = logInFlight + n

\* install the result of a handler step.  The Collector's counters are only
\* ever incremented and never read by the request path; delta holds the
\* increments the handler has made for the message it is processing.
Apply(h, st) ==
    /\ H' = [H EXCEPT ![h] = [st.r EXCEPT !.delta = AddCounts(H[h].delta, st.inc),
                                         !.logged = H[h].logged + st.logs]]
    /\ logDNSQuery(st.logs)

\* a message arrives: s.metrics.DNSQueriesTotal.Inc(); msg.SetReply(r)
Receive(h, id, question) ==
    /\ H[h].pc = "idle"
    /\ used.msgs < MaxMsgs
    /\ used' = [used EXCEPT !.msgs = used.msgs + 1]
    /\ LET req == [id |-> id, question |-> question]
           r == [IdleHandler EXCEPT !.req = req, !.msg = SetReply(req), !.cache0 = cache]
       IN \E st \in {Step(NextQuestion(r), Inc("queries"), 0)} : Apply(h, st)
    /\ UNCHANGED <<now, threatTable, cache, logStalled, updater, mock, api, server, goroutines, redis>>

\* s.cache.Get(cacheKey)
CacheGetStep(h, errs) ==
    /\ H[h].pc = "cache"
    /\ \E err \in errs :
         \E st \in {AfterCacheGet(H[h], IF err THEN "" ELSE CacheGet(CacheKey(H[h].domain)), err)} :
             Apply(h, st)
    /\ UNCHANGED <<now, used, threatTable, cache, logStalled, updater, mock, api, server, goroutines, redis>>

\* s.database.CheckThreatDomain(domain) / (parentDomain)
LookupStep(h, errs) ==
    /\ H[h].pc = "lookup"
    /\ \E err \in errs :
         LET name == LookupName(H[h])
             t == IF err THEN "" ELSE CheckThreatDomain(name)
             r == [H[h] EXCEPT !.lookups = Append(H[h].lookups,
                        [name |-> name, res |-> IF err THEN "err" ELSE t,
                         blockable |-> BlockableRow(name),
                         fresh |-> BlockableByCreation(name)])]
         IN \E st \in {AfterLookup(r, t, err)} : Apply(h, st)
    /\ UNCHANGED <<now, used, threatTable, cache, logStalled, updater, mock, api, server, goroutines, redis>>

\* s.cache.Set(cacheKey, value, ttl); its error is dropped
CacheSetStep(h, errs) ==
    /\ H[h].pc = "set"
    /\ \E err \in errs :
         LET k == SetKey(H[h])
             v == H[h].pend.value
             r == [H[h] EXCEPT !.sets = Append(H[h].sets,
                        [key |-> k, value |-> v, ttl |-> SetTTL(v), ok |-> ~err, at |-> now])]
         IN /\ cache' = IF err THEN cache ELSE CacheSet(k, v, SetTTL(v))
            /\ \E st \in {AfterCacheSet(r)} : Apply(h, st)
    /\ UNCHANGED <<now, used, threatTable, logStalled, updater, mock, api, server, goroutines, redis>>

\* client.Exchange(msg, upstream) for the upstream at position up
ExchangeStep(h, outs) ==
    /\ H[h].pc = "exchange"
    /\ \E outcome \in outs : \E st \in {AfterExchange(H[h], outcome)} : Apply(h, st)
    /\ UNCHANGED <<now, used, threatTable, cache, logStalled, updater, mock, api, server, goroutines, redis>>

\* w.WriteMsg(&msg)
WriteStep(h, errs) ==
    /\ H[h].pc = "write"
    /\ \E err \in errs : \E st \in {AfterWrite(H[h], err)} : Apply(h, st)
    /\ UNCHANGED <<now, used, threatTable, cache, logStalled, updater, mock, api, server, goroutines, redis>>

\* handleDNSRequest returns; the goroutine ends
Return(h) ==
    /\ H[h].pc = "done"
    /\ H' = [H EXCEPT ![h] = IdleHandler]
    /\ UNCHANGED <<now, used, threatTable, cache, logInFlight, logStalled, updater, mock, api, server, goroutines, redis>>

\* a goroutine started by logDNSQuery finishes its INSERT (or fails)
LogWrite ==
    /\ logInFlight > 0
    /\ ~logStalled
    /\ logInFlight' = logInFlight - 1
    /\ UNCHANGED <<now, used, threatTable, cache, H, logStalled, updater, mock, api, server, goroutines, redis>>

\* a goroutine started by logDNSQuery returns: its INSERT is done, or it has
\* failed (the sink answers with an error, or does not answer within the 5
\* seconds of the call's context) and the record is gone with an Error log
\* line
LogReturn(err) ==
    /\ logInFlight > 0
    /\ err \/ ~logStalled
    /\ logInFlight' = logInFlight - 1
    /\ Call("LogDNSQuery", <<>>, <<>>, IF err THEN "err" ELSE "ok")
    /\ UNCHANGED <<now, used, threatTable, cache, H, logStalled, updater, mock, server, goroutines, redis>>

\* the dns_logs writer stalls or recovers
LogStall ==
    /\ logStalled' = ~logStalled
    /\ UNCHANGED <<now, used, threatTable, cache, H, logInFlight, updater, mock, api, server, goroutines, redis>>

\* the batches ingestion commits
Batches ==
    { {e} : e \in FeedEntries } \cup
    { {e1, e2} : e1 \in {e \in FeedEntries : e.domain = Str_abc},
                 e2 \in {e \in FeedEntries : e.domain = Str_bc /\ e.confidence >= Threshold} }

Environment ==
    \/ \E dt \in {TTLAllowed, FreshWindow} : Tick(dt)
    \/ \E es \in Batches : BatchInsertThreats(es)

---------------------------------------------------------------------------
(* cache.MockRedisClient: data map[string]mockValue behind one mutex.  Each *)
(* call runs under the mutex, so a call is one step.                         *)

MaxCalls == 3

\* time.Time{}: the expiration of a value stored without one
ZeroTime == -1

MockKeys == {"counter"}

\* the values and expirations callers pass (0: no expiration)
MockValues == {<<"v">>, <<"1">>}

MockExpirations == {0, TTLAllowed}

NoMockValue == [exists |-> FALSE]

\* make(map[string]mockValue)
NewMockRedisClient ==
    [data |-> [k \in MockKeys |-> NoMockValue],
     calls |-> 0,
     last |-> [op |-> "none", key |-> "", arg |-> <<>>, pre |-> NoMockValue, at |-> 0,
               val |-> <<>>, ok |-> FALSE, count |-> 0, err |-> FALSE]]

IsZero(t) == t = ZeroTime

Digits == <<"0", "1", "2", "3", "4", "5", "6", "7", "8", "9">>

IsDigit(c) == \E i \in 1..Len(Digits) : Digits[i] = c

DigitValue(c) == (CHOOSE i \in 1..Len(Digits) : Digits[i] = c) - 1

RECURSIVE parseInt64From(_, _, _)
\* the loop of parseInt64 at position k with result so far
parseInt64From(s, k, result) ==
    IF k > Len(s) THEN [result |-> result, err |-> FALSE]
    ELSE IF ~IsDigit(s[k]) THEN [result |-> 0, err |-> TRUE]
    ELSE parseInt64From(s, k + 1, result * 10 + DigitValue(s[k]))

parseInt64(s) == parseInt64From(s, 1, 0)

\* strconv.Atoi: an optional sign, then one or more decimal digits
Atoi(s) ==
    LET signed == Len(s) > 0 /\ s[1] \in {"+", "-"}
        digits == IF signed THEN SubSeq(s, 2, Len(s)) ELSE s
        r == parseInt64From(digits, 1, 0)
    IN  IF Len(digits) = 0 \/ r.err THEN [result |-> 0, err |-> TRUE]
        ELSE [result |-> IF signed /\ s[1] = "-" THEN 0 - r.result ELSE r.result,
              err |-> FALSE]

RECURSIVE Sprintf_d(_)
\* fmt.Sprintf("%d", count) for count >= 0
Sprintf_d(count) ==
    IF count < 10 THEN <<Digits[count + 1]>>
    ELSE Sprintf_d(count \div 10) \o <<Digits[(count % 10) + 1]>>

\* var exp time.Time; if expiration > 0 { exp = time.Now().Add(expiration) }
ExpirationTime(expiration) == IF expiration > 0 THEN now + expiration ELSE ZeroTime

\* what a call leaves in the map and returns
Result(data, val, ok, count, err) ==
    [data |-> data, val |-> val, ok |-> ok, count |-> count, err |-> err]

\* Get: not found for a missing key; a key is dropped only when
\* time.Now().After(value.expiration)
MockGet(data, key) ==
    LET value == data[key] IN
    IF ~value.exists THEN Result(data, <<>>, FALSE, 0, TRUE)
    ELSE IF ~IsZero(value.expiration) /\ now > value.expiration
    THEN Result([data EXCEPT ![key] = NoMockValue], <<>>, FALSE, 0, TRUE)
    ELSE Result(data, value.value, FALSE, 0, FALSE)

MockSet(data, key, value, expiration) ==
    Result([data EXCEPT ![key] = [exists |-> TRUE, value |-> value,
                                  expiration |-> ExpirationTime(expiration)]],
           <<>>, FALSE, 0, FALSE)

MockDelete(data, key) == Result([data EXCEPT ![key] = NoMockValue], <<>>, FALSE, 0, FALSE)

MockExists(data, key) ==
    LET value == data[key] IN
    IF ~value.exists THEN Result(data, <<>>, FALSE, 0, FALSE)
    ELSE IF ~IsZero(value.expiration) /\ now > value.expiration
    THEN Result([data EXCEPT ![key] = NoMockValue], <<>>, FALSE, 0, FALSE)
    ELSE Result(data, <<>>, TRUE, 0, FALSE)

\* SetNX: the key counts as there if expiration.IsZero() or time.Now().Before(expiration)
MockSetNX(data, key, value, expiration) ==
    LET existing == data[key] IN
    IF existing.exists /\ (IsZero(existing.expiration) \/ now < existing.expiration)
    THEN Result(data, <<>>, FALSE, 0, FALSE)
    ELSE Result([data EXCEPT ![key] = [exists |-> TRUE, value |-> value,
                                       expiration |-> ExpirationTime(expiration)]],
                <<>>, TRUE, 0, FALSE)

\* Increment: starts from 1 for a missing key, for an expired one
\* (time.Now().After(expiration)) and for a value that does not parse; keeps
\* the expiration it found (the zero time for a missing key)
MockIncrement(data, key) ==
    LET value == data[key]
        count == IF ~value.exists THEN 1
                 ELSE IF ~IsZero(value.expiration) /\ now > value.expiration THEN 1
                 ELSE IF parseInt64(value.value).err THEN 1
                 ELSE parseInt64(value.value).result + 1
    IN Result([data EXCEPT ![key] =
                  [exists |-> TRUE, value |-> Sprintf_d(count),
                   expiration |-> IF value.exists THEN value.expiration ELSE ZeroTime]],
              <<>>, FALSE, count, FALSE)

\* IncrementWithExpiry: continues the count only if expiration.IsZero() or
\* time.Now().Before(expiration)
MockIncrementWithExpiry(data, key, expiration) ==
    LET value == data[key]
        count == IF value.exists /\ (IsZero(value.expiration) \/ now < value.expiration)
                    /\ ~parseInt64(value.value).err
                 THEN parseInt64(value.value).result + 1
                 ELSE 1
    IN Result([data EXCEPT ![key] = [exists |-> TRUE, value |-> Sprintf_d(count),
                                     expiration |-> ExpirationTime(expiration)]],
              <<>>, FALSE, count, FALSE)

\* one call on the client: the map after it, and what it returned
MockCall(op, key, arg, res) ==
    /\ mock.calls < MaxCalls
    /\ mock' = [data |-> res.data, calls |-> mock.calls + 1,
                last |-> [op |-> op, key |-> key, arg |-> arg, pre |-> mock.data[key],
                          at |-> now, val |-> res.val, ok |-> res.ok,
                          count |-> res.count, err |-> res.err]]
    /\ UNCHANGED <<now, used, threatTable, cache, H, logInFlight, logStalled, updater, api, server, goroutines, redis>>

Get(key) == \E res \in {MockGet(mock.data, key)} : MockCall("Get", key, <<>>, res)

Set(key, value, expiration) ==
    \E res \in {MockSet(mock.data, key, value, expiration)} : MockCall("Set", key, value, res)

Delete(key) == \E res \in {MockDelete(mock.data, key)} : MockCall("Delete", key, <<>>, res)

Exists(key) == \E res \in {MockExists(mock.data, key)} : MockCall("Exists", key, <<>>, res)

SetNX(key, value, expiration) ==
    \E res \in {MockSetNX(mock.data, key, value, expiration)} : MockCall("SetNX", key, value, res)

Increment(key) ==
    \E res \in {MockIncrement(mock.data, key)} : MockCall("Increment", key, <<>>, res)

IncrementWithExpiry(key, expiration) ==
    \E res \in {MockIncrementWithExpiry(mock.data, key, expiration)} :
        MockCall("IncrementWithExpiry", key, <<>>, res)

---------------------------------------------------------------------------
(* cache.RedisClient in front of a Redis server.  The commands are the      *)
(* server's: a key is there until its expiry time is reached.               *)

NewRedisClient ==
    [data |-> [k \in MockKeys |-> NoMockValue],
     last |-> [val |-> <<>>, ok |-> FALSE, count |-> 0, err |-> FALSE]]

\* the key is in the keyspace
Live(value) == value.exists /\ (IsZero(value.expiration) \/ now < value.expiration)

\* how the server reads a value as an integer: no "+" sign
string2ll(s) ==
    IF Len(s) > 0 /\ s[1] = "+" THEN [result |-> 0, err |-> TRUE] ELSE Atoi(s)

\* Get: r.client.Get(...).Result(); redis.Nil becomes "key not found"
RedisGet(data, key) ==
    IF Live(data[key]) THEN Result(data, data[key].value, FALSE, 0, FALSE)
    ELSE Result(data, <<>>, FALSE, 0, TRUE)

\* Set: SET key value [EX expiration]; expiration 0 sets no expiry
RedisSet(data, key, value, expiration) ==
    Result([data EXCEPT ![key] = [exists |-> TRUE, value |-> value,
                                  expiration |-> ExpirationTime(expiration)]],
           <<>>, FALSE, 0, FALSE)

\* Delete: DEL key
RedisDelete(data, key) == Result([data EXCEPT ![key] = NoMockValue], <<>>, FALSE, 0, FALSE)

\* Exists: EXISTS key; count > 0
RedisExists(data, key) == Result(data, <<>>, Live(data[key]), 0, FALSE)

\* SetNX: SET key value [EX expiration] NX
RedisSetNX(data, key, value, expiration) ==
    IF Live(data[key]) THEN Result(data, <<>>, FALSE, 0, FALSE)
    ELSE Result([data EXCEPT ![key] = [exists |-> TRUE, value |-> value,
                                       expiration |-> ExpirationTime(expiration)]],
                <<>>, TRUE, 0, FALSE)

\* INCR key: 1 for a key that is not there; an error, and no change, for a
\* value that is not an integer; the expiry of the key is kept
INCR(data, key) ==
    LET value == data[key] IN
    IF ~Live(value)
    THEN Result([data EXCEPT ![key] = [exists |-> TRUE, value |-> <<"1">>,
                                       expiration |-> ZeroTime]],
                <<>>, FALSE, 1, FALSE)
    ELSE IF string2ll(value.value).err THEN Result(data, <<>>, FALSE, 0, TRUE)
    ELSE Result([data EXCEPT ![key].value = Sprintf_d(string2ll(value.value).result + 1)],
                <<>>, FALSE, string2ll(value.value).result + 1, FALSE)

\* EXPIRE key seconds: a timeout that is not positive deletes the key
EXPIRE(data, key, expiration) ==
    IF ~Live(data[key]) THEN data
    ELSE IF expiration <= 0 THEN [data EXCEPT ![key] = NoMockValue]
    ELSE [data EXCEPT ![key].expiration = now + expiration]

\* Increment: r.client.Incr(...).Result()
RedisIncrement(data, key) == INCR(data, key)

\* IncrementWithExpiry: MULTI, INCR key, EXPIRE key expiration, EXEC; an
\* error of INCR is the error of Exec, and EXPIRE runs all the same
RedisIncrementWithExpiry(data, key, expiration) ==
    LET incr == INCR(data, key) IN
    Result(EXPIRE(incr.data, key, expiration), <<>>, FALSE, incr.count, incr.err)

\* the same call on the MockRedisClient and on the RedisClient
BothCall(op, key, arg, res, real) ==
    /\ mock.calls < MaxCalls
    /\ mock' = [data |-> res.data, calls |-> mock.calls + 1,
                last |-> [op |-> op, key |-> key, arg |-> arg, pre |-> mock.data[key],
                          at |-> now, val |-> res.val, ok |-> res.ok,
                          count |-> res.count, err |-> res.err]]
    /\ redis' = [data |-> real.data,
                 last |-> [val |-> real.val, ok |-> real.ok, count |-> real.count,
                           err |-> real.err]]
    /\ UNCHANGED <<now, used, threatTable, cache, H, logInFlight, logStalled, updater,
                   api, server, goroutines>>

\* time passes for both
BothTick(dt) ==
    /\ used.ticks < MaxTicks
    /\ used' = [used EXCEPT !.ticks = used.ticks + 1]
    /\ now' = now + dt
    /\ UNCHANGED <<threatTable, cache, H, logInFlight, logStalled, updater, mock, api,
                   server, goroutines, redis>>

---------------------------------------------------------------------------
(* The threat-updater process: feeds.FeedManager, feeds.AdBlockManager,     *)
(* ThreatUpdater.performUpdate and the select loop of main.  Durations are  *)
(* in minutes.                                                              *)

MaxMinutes == 15
MaxHourMinutes == 65
MaxOutages == 1

SleepMinutes == 5             \* time.Sleep(5 * time.Minute)
CleanupMinutes == 60          \* time.After(1 * time.Hour)
MaxAgeMinutes == 43200        \* maxAge := 30 * 24 * time.Hour
UpdateChanCap == 1            \* make(chan struct{}, 1)
MaxDuration == 153722867      \* what time.Since saturates to, in minutes (2^63 ns)

\* time.Since(t); for the zero time the difference saturates
Since(t) == IF IsZero(t) THEN MaxDuration ELSE now - t

\* NewFeedManager: URLhaus, OpenPhish and PhishTank (disabled)
NewFeedManager ==
    << [Name |-> "URLhaus", UpdateFreq |-> 5, IsEnabled |-> TRUE, LastUpdated |-> ZeroTime],
       [Name |-> "OpenPhish", UpdateFreq |-> 30, IsEnabled |-> TRUE, LastUpdated |-> ZeroTime],
       [Name |-> "PhishTank", UpdateFreq |-> 60, IsEnabled |-> FALSE, LastUpdated |-> ZeroTime] >>

\* NewAdBlockManager: the first of its six lists, all of them enabled
NewAdBlockManager ==
    << [Name |-> "EasyList", UpdateFreq |-> 1440, IsEnabled |-> TRUE, LastUpdated |-> ZeroTime] >>

FeedNames == {"URLhaus", "OpenPhish", "PhishTank", "EasyList"}

\* what the parsers return for each feed while the feeds stay as they are:
\* URLhaus entries carry 0.90, text feeds 0.85, PhishTank 0.95, EasyList rules 0.80
FeedContent(name) ==
    IF name = "URLhaus"
    THEN << [domain |-> Str_abc, threatType |-> "malware", confidence |-> 90] >>
    ELSE IF name = "OpenPhish"
    THEN << [domain |-> Str_c, threatType |-> "phishing", confidence |-> 85] >>
    ELSE IF name = "PhishTank"
    THEN << [domain |-> Str_bc, threatType |-> "phishing", confidence |-> 95] >>
    ELSE << [domain |-> Str_abc, threatType |-> "ads", confidence |-> 80],
            [domain |-> Str_bc, threatType |-> "ads", confidence |-> 80] >>

\* one run of performUpdate, as the log lines of the process tell it
NoCycle ==
    [n |-> 0, start |-> 0, end |-> 0, running |-> FALSE, err |-> FALSE,
     fetched |-> {}, entries |-> <<>>, inserted |-> FALSE,
     table0 |-> <<>>, table1 |-> <<>>, cleanups |-> 0]

NoAttempt == [feed |-> "", at |-> 0, prev |-> ZeroTime, freq |-> 0, ok |-> FALSE,
              recorded |-> ZeroTime]

NoSeen == [domain |-> <<>>, found |-> FALSE, read |-> FALSE]

NewUpdater ==
    [pc |-> "start",
     updateChan |-> 0,            \* values buffered in updater.updateChan
     sleepers |-> {},             \* wake-up instants of the goroutines in time.Sleep
     timer |-> 0,                 \* when the time.After of the current select was created
     sigChan |-> FALSE,           \* a shutdown signal is waiting in sigChan
     feedManager |-> NewFeedManager,
     adBlockManager |-> NewAdBlockManager,
     i |-> 0,                     \* position of the range loop over feeds / entries
     allEntries |-> <<>>,
     txn |-> <<>>,                \* rows handed to the COPY statement of the open transaction
     slow |-> FALSE,              \* a fetch of this cycle has taken its time
     down |-> {},                 \* feeds whose server does not answer
     outages |-> 0,
     cleanups |-> 0,              \* cleanup passes run so far
     \* history
     cur |-> NoCycle, prev |-> NoCycle,
     lastFetch |-> [f \in FeedNames |-> ZeroTime],
     attempt |-> NoAttempt,
     seen |-> NoSeen]

\* rows of a sequence of entries, as a set of domains
DomainsOf(entries) == {entries[k].domain : k \in 1..Len(entries)}

\* the COPY that fails only on rows repeated among themselves and replaces
\* the rows the table holds
CopyFailsOnRepeatsOnly(table, rows) ==
    \E k1, k2 \in 1..Len(rows) : k1 # k2 /\ rows[k1].domain = rows[k2].domain

\* the COPY fails as a whole when a row breaks UNIQUE(domain): the domain is
\* in the table already, or twice among the rows copied
CopyFails(table, rows) ==
    \/ \E k \in 1..Len(rows) : table[rows[k].domain].present
    \/ \E k1, k2 \in 1..Len(rows) : k1 # k2 /\ rows[k1].domain = rows[k2].domain

\* the table once the transaction that copied rows has committed
TableAfterCommit(table, rows) ==
    [d \in TableDomains |->
        IF d \in DomainsOf(rows)
        THEN LET e == rows[CHOOSE k \in 1..Len(rows) : rows[k].domain = d] IN
             [present |-> TRUE, threat_type |-> e.threatType, confidence |-> e.confidence,
              created_at |-> now, updated_at |-> now]
        ELSE table[d]]

\* rows written through stmt.ExecContext without a transaction around them
TableAfterRowAutocommit(table, row) ==
    IF table[row.domain].present THEN table
    ELSE [table EXCEPT ![row.domain] =
            [present |-> TRUE, threat_type |-> row.threatType, confidence |-> row.confidence,
             created_at |-> now, updated_at |-> now]]

\* what other sessions see of the table after a row has been handed to the
\* COPY of an open transaction: nothing of it
TableAfterRow(table, row) == table

\* go func() { time.Sleep(5 * time.Minute); ... }() started only after a
\* cycle that returned no error
NextWakeOnSuccess(err) == IF err THEN {} ELSE {now + SleepMinutes}

\* go func() { time.Sleep(5 * time.Minute); ... }() after every cycle
NextWake(err) == {now + SleepMinutes}

\* performUpdate has returned
EndCycle(u, err, inserted) ==
    [u EXCEPT !.pc = "schedule", !.txn = <<>>, !.i = 0,
              !.cur = [u.cur EXCEPT !.end = now, !.running = FALSE, !.err = err,
                                    !.entries = u.allEntries, !.inserted = inserted,
                                    !.table1 = threatTable']]

\* a step of the process; what a reader saw belongs to the state it read
UpdaterStep(u) ==
    /\ updater' = [u EXCEPT !.seen = NoSeen]
    /\ UNCHANGED <<now, used, cache, H, logInFlight, logStalled, mock, api, server, goroutines, redis>>

\* updater.updateChan <- struct{}{}  before the loop
StartUpdater ==
    /\ updater.pc = "start"
    /\ UpdaterStep([updater EXCEPT !.pc = "select", !.updateChan = 1, !.timer = now])
    /\ UNCHANGED threatTable

\* case <-updater.updateChan: performUpdate begins
SelectUpdate ==
    /\ updater.pc = "select"
    /\ updater.updateChan > 0
    /\ UpdaterStep([updater EXCEPT
            !.pc = "threatFeeds", !.updateChan = updater.updateChan - 1,
            !.i = 1, !.allEntries = <<>>, !.slow = FALSE, !.attempt = NoAttempt,
            !.prev = updater.cur,
            !.cur = [NoCycle EXCEPT !.n = updater.cur.n + 1, !.start = now, !.running = TRUE,
                                    !.table0 = threatTable, !.cleanups = updater.cleanups]])
    /\ UNCHANGED threatTable

\* case <-sigChan: cancel(); return
SelectSignal ==
    /\ updater.pc = "select"
    /\ updater.sigChan
    /\ UpdaterStep([updater EXCEPT !.pc = "exited", !.sigChan = FALSE, !.sleepers = {}])
    /\ UNCHANGED threatTable

\* the DELETE with the cutoff included: WHERE updated_at <= now - maxAge
CleanupOldThreatsInclusive(maxAge) ==
    [d \in TableDomains |->
        IF threatTable[d].present /\ threatTable[d].updated_at <= now - maxAge
        THEN NoRow ELSE threatTable[d]]

\* CleanupOldThreats(maxAge): DELETE FROM threat_domains WHERE updated_at < now - maxAge
CleanupOldThreats(maxAge) ==
    [d \in TableDomains |->
        IF threatTable[d].present /\ threatTable[d].updated_at < now - maxAge
        THEN NoRow ELSE threatTable[d]]

\* ThreatDB.CleanupOldThreats(ctx, maxAge) called on its own
CleanupPass(maxAge) ==
    /\ threatTable' = CleanupOldThreats(maxAge)
    /\ Call("CleanupOldThreats", maxAge, threatTable, <<>>)
    /\ UNCHANGED <<now, used, cache, H, logInFlight, logStalled, updater, mock, server, goroutines, redis>>

\* case <-time.After(1 * time.Hour): cleanupOldThreats
SelectCleanup ==
    /\ updater.pc = "select"
    /\ now - updater.timer >= CleanupMinutes
    /\ threatTable' = CleanupOldThreats(MaxAgeMinutes)
    /\ UpdaterStep([updater EXCEPT !.cleanups = updater.cleanups + 1, !.timer = now])

\* the range loop with "return nil, err" where the code has "continue": a
\* failed fetch ends the loop
RangeStepReturnsOnError(u, feeds, nextpc) ==
    LET feed == feeds[u.i]
        more == [u EXCEPT !.i = IF u.i < Len(feeds) THEN u.i + 1 ELSE 1,
                          !.pc = IF u.i < Len(feeds) THEN u.pc ELSE nextpc]
        done == [u EXCEPT !.i = 1, !.pc = nextpc]
    IN
    IF ~feed.IsEnabled THEN {more}
    ELSE IF Since(feed.LastUpdated) < feed.UpdateFreq THEN {more}
    ELSE { IF feed.Name \in u.down
           THEN [done EXCEPT !.attempt = [feed |-> feed.Name, at |-> now,
                                          prev |-> u.lastFetch[feed.Name],
                                          freq |-> feed.UpdateFreq, ok |-> FALSE,
                                          recorded |-> feeds[u.i].LastUpdated]]
           ELSE LET copy == [feed EXCEPT !.LastUpdated = now] IN
                [more EXCEPT !.allEntries = u.allEntries \o FeedContent(feed.Name),
                             !.cur.fetched = u.cur.fetched \cup {feed.Name},
                             !.lastFetch[feed.Name] = copy.LastUpdated,
                             !.attempt = [feed |-> feed.Name, at |-> now,
                                          prev |-> u.lastFetch[feed.Name],
                                          freq |-> feed.UpdateFreq, ok |-> TRUE,
                                          recorded |-> feeds[u.i].LastUpdated]] }

\* one iteration of "for _, feed := range feeds": feed is a copy of the
\* element, so feed.LastUpdated = time.Now() changes the copy and the
\* manager's slice keeps the LastUpdated it had
RangeStep(u, feeds, nextpc) ==
    LET feed == feeds[u.i]
        more == [u EXCEPT !.i = IF u.i < Len(feeds) THEN u.i + 1 ELSE 1,
                          !.pc = IF u.i < Len(feeds) THEN u.pc ELSE nextpc]
    IN
    IF ~feed.IsEnabled THEN {more}
    ELSE IF Since(feed.LastUpdated) < feed.UpdateFreq THEN {more}
    ELSE { IF feed.Name \in u.down
           THEN [more EXCEPT !.attempt = [feed |-> feed.Name, at |-> now,
                                          prev |-> u.lastFetch[feed.Name],
                                          freq |-> feed.UpdateFreq, ok |-> FALSE,
                                          recorded |-> feeds[u.i].LastUpdated]]
           ELSE LET copy == [feed EXCEPT !.LastUpdated = now] IN
                [more EXCEPT !.allEntries = u.allEntries \o FeedContent(feed.Name),
                             !.cur.fetched = u.cur.fetched \cup {feed.Name},
                             !.lastFetch[feed.Name] = copy.LastUpdated,
                             !.attempt = [feed |-> feed.Name, at |-> now,
                                          prev |-> u.lastFetch[feed.Name],
                                          freq |-> feed.UpdateFreq, ok |-> TRUE,
                                          recorded |-> feeds[u.i].LastUpdated]] }

\* FeedManager.UpdateAllFeeds, one feed per step
UpdateAllFeeds ==
    /\ updater.pc = "threatFeeds"
    /\ \E u \in RangeStep(updater, updater.feedManager, "adFeeds") : UpdaterStep(u)
    /\ UNCHANGED threatTable

\* AdBlockManager.UpdateAllAdBlockFeeds, one feed per step; then
\* if len(allEntries) == 0 { return nil }
UpdateAllAdBlockFeeds ==
    /\ updater.pc = "adFeeds"
    /\ UNCHANGED threatTable
    /\ \E u \in RangeStep(updater, updater.adBlockManager, "begin") :
          IF u.pc = "begin" /\ Len(u.allEntries) = 0
          THEN UpdaterStep(EndCycle(u, FALSE, FALSE))
          ELSE UpdaterStep(u)

\* BatchInsertThreats: BeginTx and the COPY statement
BeginTx ==
    /\ updater.pc = "begin"
    /\ UpdaterStep([updater EXCEPT !.pc = "copy", !.i = 1, !.txn = <<>>])
    /\ UNCHANGED threatTable

\* stmt.ExecContext(ctx, entry...) for the entry at position i
CopyRow ==
    /\ updater.pc = "copy"
    /\ LET row == updater.allEntries[updater.i] IN
       /\ threatTable' = TableAfterRow(threatTable, row)
       /\ UpdaterStep([updater EXCEPT
               !.txn = Append(updater.txn, row),
               !.i = IF updater.i < Len(updater.allEntries) THEN updater.i + 1 ELSE 1,
               !.pc = IF updater.i < Len(updater.allEntries) THEN "copy" ELSE "exec"])

\* stmt.ExecContext(ctx): the COPY runs; on its error the function returns
\* and the deferred Rollback drops the rows
ExecCopy ==
    /\ updater.pc = "exec"
    /\ IF CopyFails(threatTable, updater.txn)
       THEN /\ threatTable' = updater.cur.table0
            /\ UpdaterStep(EndCycle(updater, TRUE, FALSE))
       ELSE /\ threatTable' = threatTable
            /\ UpdaterStep([updater EXCEPT !.pc = "commit"])

\* txn.Commit()
Commit ==
    /\ updater.pc = "commit"
    /\ threatTable' = TableAfterCommit(threatTable, updater.txn)
    /\ UpdaterStep(EndCycle(updater, FALSE, TRUE))

\* "Schedule next update": the goroutine that sleeps and then offers a value
\* to updateChan; main is back at the select
ScheduleNext ==
    /\ updater.pc = "schedule"
    /\ UpdaterStep([updater EXCEPT !.pc = "select", !.timer = now,
                                   !.sleepers = updater.sleepers \cup NextWake(updater.cur.err)])
    /\ UNCHANGED threatTable

\* a sleeping goroutine wakes:
\* select { case updater.updateChan <- struct{}{}: default: }
Wake ==
    /\ updater.pc # "exited"
    /\ \E t \in updater.sleepers :
         /\ t <= now
         /\ UpdaterStep([updater EXCEPT
                 !.sleepers = updater.sleepers \ {t},
                 !.updateChan = IF updater.updateChan < UpdateChanCap
                                THEN updater.updateChan + 1 ELSE updater.updateChan])
    /\ UNCHANGED threatTable

\* SIGINT or SIGTERM is delivered to the process
Signal ==
    /\ updater.pc # "exited"
    /\ ~updater.sigChan
    /\ UpdaterStep([updater EXCEPT !.sigChan = TRUE])
    /\ UNCHANGED threatTable

\* the server of a feed stops answering: its fetches fail (HTTP error or
\* client timeout) until it is back.  Outages begin and end between cycles.
Outage(f) ==
    /\ updater.pc = "select"
    /\ updater.outages < MaxOutages
    /\ f \notin updater.down
    /\ UpdaterStep([updater EXCEPT !.down = updater.down \cup {f},
                                   !.outages = updater.outages + 1])
    /\ UNCHANGED threatTable

\* the server of a feed answers again
Restore(f) ==
    /\ updater.pc = "select"
    /\ f \in updater.down
    /\ UpdaterStep([updater EXCEPT !.down = updater.down \ {f}])
    /\ UNCHANGED threatTable

\* another session calls IsThreatDomain(d) while a batch is being inserted
\* or has just been
ReaderLookup(d) ==
    /\ updater.pc \in {"copy", "exec", "commit", "schedule"}
    /\ ~updater.seen.read
    /\ updater' = [updater EXCEPT
            !.seen = [domain |-> d, found |-> IsThreatDomain(d).found, read |-> TRUE]]
    /\ UNCHANGED <<now, used, threatTable, cache, H, logInFlight, logStalled, mock, api, server, goroutines, redis>>

\* main waits in the select with nothing to receive
MainBlocked ==
    /\ updater.pc = "select"
    /\ updater.updateChan = 0
    /\ ~updater.sigChan
    /\ now - updater.timer < CleanupMinutes

\* a fetch of the running cycle has run into the timeouts of its HTTP client
Fetching ==
    /\ updater.pc \in {"threatFeeds", "adFeeds"}
    /\ ~updater.slow
    /\ updater.attempt.feed # "" /\ ~updater.attempt.ok

\* five minutes pass while the process is only waiting: main in its select
\* or in an HTTP fetch, no sleeper due
Elapse(horizon) ==
    /\ now < horizon
    /\ MainBlocked \/ Fetching
    /\ \A t \in updater.sleepers : now < t
    /\ now' = now + SleepMinutes
    /\ cache' = [k \in CacheKeys |->
            IF cache[k].present /\ now + SleepMinutes < cache[k].expiry THEN cache[k] ELSE NoEntry]
    /\ updater' = [updater EXCEPT !.slow = IF Fetching THEN TRUE ELSE updater.slow,
                                  !.seen = NoSeen]
    /\ UNCHANGED <<used, threatTable, H, logInFlight, logStalled, mock, api, server, goroutines, redis>>

\* the host suspends the process for thirty days while main waits in the select
Suspend(horizon) ==
    /\ now < horizon
    /\ MainBlocked
    /\ now' = now + MaxAgeMinutes
    /\ cache' = [k \in CacheKeys |-> NoEntry]
    /\ UNCHANGED <<used, threatTable, H, logInFlight, logStalled, updater, mock, api, server, goroutines, redis>>

---------------------------------------------------------------------------
(* The feed parsers: FeedManager.parseJSONFeed, FeedManager.parseTextFeed,  *)
(* AdBlockManager.parseHostsFormat, parseEasyListFormat, parseDomainsFormat.*)
(* A feed is a sequence of runs [row, n]: the same row n times in a row.    *)
(* A parser's result is the sequence of runs [entry, n] it appended and the *)
(* number of rows it read.                                                  *)

MaxRuns == 2

HostsCap == 50000       \* if len(entries) >= 50000 { break }
EasyListCap == 30000    \* if len(entries) >= 30000 { break }

\* [a-zA-Z0-9]
AlphaNum == {"a", "b", "c", "d", "A", "B", "C", "D", "0", "localhost"}

\* strings.HasPrefix
HasPrefix(s, prefix) ==
    Len(s) >= Len(prefix) /\ SubSeq(s, 1, Len(prefix)) = prefix

RECURSIVE TrimLeft(_)
TrimLeft(s) == IF Len(s) > 0 /\ s[1] = " " THEN TrimLeft(Tail(s)) ELSE s

RECURSIVE TrimRight(_)
TrimRight(s) ==
    IF Len(s) > 0 /\ s[Len(s)] = " " THEN TrimRight(SubSeq(s, 1, Len(s) - 1)) ELSE s

\* strings.TrimSpace
TrimSpace(s) == TrimRight(TrimLeft(s))

RECURSIVE FieldsFrom(_, _, _)
\* strings.Fields(s), scanning from position k with the field cur open
FieldsFrom(s, k, cur) ==
    IF k > Len(s) THEN (IF cur = <<>> THEN <<>> ELSE <<cur>>)
    ELSE IF s[k] = " "
         THEN (IF cur = <<>> THEN <<>> ELSE <<cur>>) \o FieldsFrom(s, k + 1, <<>>)
         ELSE FieldsFrom(s, k + 1, Append(cur, s[k]))

Fields(s) == FieldsFrom(s, 1, <<>>)

\* strings.Contains(s, "localhost")
ContainsLocalhost(s) == \E k \in 1..Len(s) : s[k] = "localhost"

\* strings.LastIndex(s, ch), counted from 1; 0 when ch does not occur
LastIndex(s, ch) ==
    IF \E k \in 1..Len(s) : s[k] = ch
    THEN CHOOSE k \in 1..Len(s) : s[k] = ch /\ \A j \in (k + 1)..Len(s) : s[j] # ch
    ELSE 0

\* strings.Index(s, ch), counted from 1; 0 when ch does not occur
Index(s, ch) ==
    IF \E k \in 1..Len(s) : s[k] = ch
    THEN CHOOSE k \in 1..Len(s) : s[k] = ch /\ \A j \in 1..(k - 1) : s[j] # ch
    ELSE 0

\* [a-zA-Z0-9]([a-zA-Z0-9\-]{0,61}[a-zA-Z0-9])?
ValidLabel(label) ==
    /\ Len(label) >= 1
    /\ Len(label) <= 63
    /\ label[1] \in AlphaNum
    /\ label[Len(label)] \in AlphaNum
    /\ \A k \in 1..Len(label) : label[k] \in AlphaNum \cup {"-"}

\* isValidDomain: 1 to 255 bytes and ^label(\.label)*$
isValidDomain(domain) ==
    /\ ~(Len(domain) = 0 \/ Len(domain) > 255)
    /\ LET labels == Split(domain) IN
       \A k \in 1..Len(labels) : ValidLabel(labels[k])

\* url.Parse(rawURL).Host for a URL that begins with its scheme: what stands
\* between "http://" and the first "/"; a blank in it is an error
UrlHost(rawURL) ==
    LET rest == Tail(rawURL)
        slash == Index(rest, "/")
        host == IF slash = 0 THEN rest ELSE SubSeq(rest, 1, slash - 1)
    IN [err |-> \E k \in 1..Len(host) : host[k] = " ", host |-> host]

\* extractDomain
extractDomain(rawURL) ==
    IF rawURL = <<>> THEN <<>>
    ELSE LET url == IF ~HasPrefix(rawURL, <<"http://">>)
                    THEN <<"http://">> \o rawURL ELSE rawURL
             parsed == UrlHost(url)
             colonIndex == LastIndex(parsed.host, ":")
             host == IF colonIndex > LastIndex(parsed.host, "]")
                     THEN SubSeq(parsed.host, 1, colonIndex - 1) ELSE parsed.host
         IN IF parsed.err THEN <<>> ELSE ToLower(host)

\* the longest run of [a-zA-Z0-9.-] that s begins with
RECURSIVE HostRun(_)
HostRun(s) ==
    IF Len(s) > 0 /\ s[1] \in AlphaNum \cup {".", "-"}
    THEN <<s[1]>> \o HostRun(Tail(s)) ELSE <<>>

\* FindStringSubmatch of ^\|\|([a-zA-Z0-9.-]+) followed by the character
\* after: the group, or <<>> when the line does not match
MatchRule(line, after) ==
    IF HasPrefix(line, <<"|", "|">>)
    THEN LET rest == SubSeq(line, 3, Len(line))
             run == HostRun(rest)
         IN IF Len(run) >= 1 /\ Len(rest) > Len(run) /\ rest[Len(run) + 1] = after
            THEN run ELSE <<>>
    ELSE <<>>

ThreatEntry(domain, threatType, confidence) ==
    [domain |-> domain, threatType |-> threatType, confidence |-> confidence]

\* one item of the URLhaus array: <<>> or the entry appended
URLhausRow(item) ==
    IF item.URLStatus # "online" THEN <<>>
    ELSE LET domain == extractDomain(item.Host) IN
         IF domain = <<>> THEN <<>>
         ELSE << ThreatEntry(domain,
                    IF item.ThreatType = "phishing" THEN "phishing" ELSE "malware", 90) >>

\* one item of the PhishTank array
PhishTankRow(item) ==
    IF item.Online # "yes" \/ item.Verified # "yes" THEN <<>>
    ELSE LET domain == extractDomain(item.URL) IN
         IF domain = <<>> THEN <<>>
         ELSE << ThreatEntry(domain, "phishing", 95) >>

\* one line of parseTextFeed for the feed called name
TextRow(name, text) ==
    LET line == TrimSpace(text) IN
    IF line = <<>> \/ HasPrefix(line, <<"#">>) THEN <<>>
    ELSE LET domain == IF name = "OpenPhish" THEN extractDomain(line) ELSE line
             threatType == IF name = "OpenPhish" THEN "phishing" ELSE "malware"
         IN IF domain = <<>> \/ ~isValidDomain(domain) THEN <<>>
            ELSE << ThreatEntry(domain, threatType, 85) >>

\* one line of parseHostsFormat
HostsRow(text) ==
    LET line == TrimSpace(text) IN
    IF line = <<>> \/ HasPrefix(line, <<"#">>) THEN <<>>
    ELSE LET parts == Fields(line) IN
         IF Len(parts) < 2 THEN <<>>
         ELSE LET domain == ToLower(parts[2]) IN
              IF ~isValidDomain(domain) \/ domain = <<"localhost">>
                 \/ ContainsLocalhost(domain)
              THEN <<>>
              ELSE << ThreatEntry(domain, "ads", 85) >>

\* one line of parseEasyListFormat
EasyListRow(text) ==
    LET line == TrimSpace(text) IN
    IF line = <<>> \/ HasPrefix(line, <<"!">>) \/ HasPrefix(line, <<"[">>) THEN <<>>
    ELSE LET byDomain == MatchRule(line, "^")
             byUrl == MatchRule(line, "/")
             domain == IF byDomain # <<>> THEN ToLower(byDomain)
                       ELSE IF byUrl # <<>> THEN ToLower(byUrl)
                       ELSE <<>>
         IN IF domain # <<>> /\ isValidDomain(domain)
            THEN << ThreatEntry(domain, "ads", 80) >>
            ELSE <<>>

\* one line of parseDomainsFormat
DomainsRow(text) ==
    LET line == TrimSpace(text) IN
    IF line = <<>> \/ HasPrefix(line, <<"#">>) THEN <<>>
    ELSE LET domain == ToLower(line) IN
         IF ~isValidDomain(domain) THEN <<>>
         ELSE << ThreatEntry(domain, "ads", 85) >>

Parsers == {"URLhaus", "PhishTank", "OpenPhish", "TextList", "hosts", "easylist", "domains"}

\* what the body of the parser's loop appends for one row
RowEntry(parser, row) ==
    IF parser = "URLhaus" THEN URLhausRow(row)
    ELSE IF parser = "PhishTank" THEN PhishTankRow(row)
    ELSE IF parser = "OpenPhish" THEN TextRow("OpenPhish", row)
    ELSE IF parser = "TextList" THEN TextRow("TextList", row)
    ELSE IF parser = "hosts" THEN HostsRow(row)
    ELSE IF parser = "easylist" THEN EasyListRow(row)
    ELSE DomainsRow(row)

\* the limit of the parser's "if len(entries) >= limit { break }"; 0: none
RowCap(parser) ==
    IF parser \in {"hosts", "domains"} THEN HostsCap
    ELSE IF parser = "easylist" THEN EasyListCap
    ELSE 0

\* the loop that breaks one entry late: len(entries) > limit
BreakLenLate(cap) == cap + 1

\* the length of entries at which the loop breaks: len(entries) >= limit
BreakLen(cap) == cap

RECURSIVE ScanRows(_, _, _, _, _, _)
\* the parser's loop from run k on, with entries (total of them) appended
\* and read rows consumed so far
ScanRows(parser, feed, k, entries, total, read) ==
    IF k > Len(feed) THEN [entries |-> entries, read |-> read]
    ELSE LET e == RowEntry(parser, feed[k].row)
             n == feed[k].n
         IN
         IF e = <<>> THEN ScanRows(parser, feed, k + 1, entries, total, read + n)
         ELSE IF RowCap(parser) = 0
         THEN ScanRows(parser, feed, k + 1,
                       Append(entries, [entry |-> e[1], n |-> n]), total + n, read + n)
         ELSE LET m == IF total + n >= BreakLen(RowCap(parser))
                       THEN BreakLen(RowCap(parser)) - total ELSE n
              IN IF total + m >= BreakLen(RowCap(parser))
                 THEN [entries |-> Append(entries, [entry |-> e[1], n |-> m]),
                       read |-> read + m]
                 ELSE ScanRows(parser, feed, k + 1,
                               Append(entries, [entry |-> e[1], n |-> m]),
                               total + m, read + m)

parseJSONFeed(name, feed) == ScanRows(name, feed, 1, <<>>, 0, 0)
parseTextFeed(name, feed) == ScanRows(name, feed, 1, <<>>, 0, 0)
parseHostsFormat(feed) == ScanRows("hosts", feed, 1, <<>>, 0, 0)
parseEasyListFormat(feed) == ScanRows("easylist", feed, 1, <<>>, 0, 0)
parseDomainsFormat(feed) == ScanRows("domains", feed, 1, <<>>, 0, 0)

\* updateFeed / updateAdBlockFeed: switch feed.Type, feed.Format
ParseFeed(parser, feed) ==
    IF parser \in {"URLhaus", "PhishTank"} THEN parseJSONFeed(parser, feed)
    ELSE IF parser \in {"OpenPhish", "TextList"} THEN parseTextFeed(parser, feed)
    ELSE IF parser = "hosts" THEN parseHostsFormat(feed)
    ELSE IF parser = "easylist" THEN parseEasyListFormat(feed)
    ELSE parseDomainsFormat(feed)

\* lines that feeds carry
Lines ==
    { <<"a", ".", "b">>,
      <<"A", ".", "b">>,
      <<"a", "_", "b">>,
      <<>>,
      <<"#", "a">>,
      <<"0", " ", "a", ".", "b">>,
      <<"0", " ", " ", "A", ".", "b", " ">>,
      <<"0", " ", "a", "_", "b">>,
      <<"0", " ", "localhost">>,
      <<"0", " ", "b", ".", "a">>,
      <<"|", "|", "a", ".", "b", "^">>,
      <<"|", "|", "A", ".", "b", "/", "a">>,
      <<"|", "|", "a", ".", ".", "b", "^">>,
      <<"|", "|", "b", ".", "a", "^">>,
      <<"http://", "A", ".", "b", ":", "0", "/", "a">> }

\* the lines that long feeds repeat
LongLines ==
    { <<"a", ".", "b">>, <<"0", " ", "a", ".", "b">>, <<"|", "|", "a", ".", "b", "^">> }

LongRuns == {EasyListCap - 1, HostsCap - 1, HostsCap}

\* items of the URLhaus and PhishTank arrays
URLhausItems ==
    { [URLStatus |-> st, Host |-> h, ThreatType |-> "malware"] :
        st \in {"online", "offline"},
        h \in { <<"a", ".", "b">>, <<"A", ".", "b">>, <<"a", "_", "b">>, <<>> } }

PhishTankItems ==
    { [Online |-> o, Verified |-> "yes", URL |-> u] :
        o \in {"yes", "no"},
        u \in { <<"http://", "A", ".", "b", "/", "a">>, <<"http://", "a", "_", "b">>,
                <<"http://", "a", " ", "b">>, <<>> } }

Runs(parser) ==
    IF parser = "URLhaus" THEN {[row |-> i, n |-> 1] : i \in URLhausItems}
    ELSE IF parser = "PhishTank" THEN {[row |-> i, n |-> 1] : i \in PhishTankItems}
    ELSE {[row |-> l, n |-> 1] : l \in Lines}
         \cup {[row |-> l, n |-> n] : l \in LongLines, n \in LongRuns}

\* feeds of at most MaxRuns runs
Feeds(parser) ==
    UNION { [1..len -> Runs(parser)] : len \in 0..MaxRuns }

\* a parser is given a feed body
Parse(parser, feed) ==
    /\ Call("parse", [parser |-> parser, feed |-> feed], <<>>, ParseFeed(parser, feed))
    /\ UNCHANGED <<now, used, threatTable, cache, H, logInFlight, logStalled,
                   updater, mock, server, goroutines, redis>>

\* update cycles that fetch one feed
MaxCycles == 2

\* the domains of a sequence of runs of entries
RunDomains(entries) == {entries[k].entry.domain : k \in 1..Len(entries)}

\* what a cycle leaves: the entries the parser returned, the lines it read,
\* and the domains handed to BatchInsertThreats so far
AfterCycle(r, inserted) ==
    [entries |-> r.entries, read |-> r.read,
     inserted |-> inserted \cup RunDomains(r.entries)]

\* one more update cycle: updateFeed / updateAdBlockFeed requests the URL of
\* the feed, whose body is what it was, and hands the body to the parser;
\* the entries returned go to BatchInsertThreats
Refetch(parser, feed) ==
    /\ \/ api.op = "none"
       \/ /\ api.op = "cycle"
          /\ api.arg.parser = parser
          /\ api.arg.feed = feed
          /\ api.arg.n < MaxCycles
    /\ LET n == IF api.op = "none" THEN 0 ELSE api.arg.n
           inserted == IF api.op = "none" THEN {} ELSE api.out.inserted
       IN  Call("cycle", [parser |-> parser, feed |-> feed, n |-> n + 1], inserted,
                AfterCycle(ParseFeed(parser, feed), inserted))
    /\ UNCHANGED <<now, used, threatTable, cache, H, logInFlight, logStalled,
                   updater, mock, server, goroutines, redis>>

---------------------------------------------------------------------------
(* The dns-filter daemon: config.Load, dns.NewServer, Server.Start,         *)
(* Server.Shutdown, Server.IsReady.                                         *)

MaxInflight == 2

\* values of UPSTREAM_DNS_1 and UPSTREAM_DNS_2 in the environment ("": unset)
EnvValues == {"", "9.9.9.9:53"}

\* values of RATE_LIMIT_PER_SECOND and MAX_QUERIES_PER_IP (<<>>: unset)
IntEnvValues == {<<>>, <<"5", "0">>, <<"-", "7">>, <<"a", "b", "c">>}

Envs == [UPSTREAM_DNS_1 : EnvValues, UPSTREAM_DNS_2 : EnvValues,
         RATE_LIMIT_PER_SECOND : IntEnvValues, MAX_QUERIES_PER_IP : {<<>>, <<"1", "x">>}]

\* getEnvAsInt(key, fallback)
getEnvAsInt(value, fallback) ==
    IF value # <<>> /\ ~Atoi(value).err THEN Atoi(value).result ELSE fallback

\* getEnv(key, fallback)
getEnv(value, fallback) == IF value # "" THEN value ELSE fallback

\* config.Load: the fields of Config the DNS path is concerned with
\* and its error, which is nil on every path
Load(env) ==
    [cfg |-> [UpstreamDNS |-> << getEnv(env.UPSTREAM_DNS_1, "1.1.1.1:53"),
                                getEnv(env.UPSTREAM_DNS_2, "8.8.8.8:53") >>,
              RateLimitPerSecond |-> getEnvAsInt(env.RATE_LIMIT_PER_SECOND, 100),
              MaxQueriesPerIP |-> getEnvAsInt(env.MAX_QUERIES_PER_IP, 1000)],
     err |-> FALSE]

\* dns.NewServer(cfg); server is the *dns.Server of the library:
\* "nil", "new" (created by Start), "started" (socket bound, reading),
\* "closing" (ShutdownContext waits), "closed"
NewServer(cfg) ==
    [upstreams |-> IF Len(cfg.Upstreams) = 0
                   THEN <<"1.1.1.1:53", "8.8.8.8:53">> ELSE cfg.Upstreams,
     ready |-> FALSE,
     server |-> "nil"]

\* the process before main has created anything
Daemon(env) ==
    [env |-> env,
     pc |-> "load",               \* main: load, new, go, wait, shutdown, stopped, exit
     cfg |-> [UpstreamDNS |-> <<>>, RateLimitPerSecond |-> 0, MaxQueriesPerIP |-> 0],
     exitCode |-> -1,             \* the exit status of the process, once it has one
     s |-> [upstreams |-> <<>>, ready |-> FALSE, server |-> "nil"],
     start |-> "none",            \* the goroutine of dnsServer.Start()
     handlers |-> 0,              \* handleDNSRequest goroutines running
     ctxDone |-> FALSE,           \* the 30 s of the shutdown context are over
     \* history
     shutdown |-> "no",           \* Shutdown: no, called, or what it returned
     left |-> 0,                  \* handlers running when Shutdown returned
     late |-> FALSE]              \* a handler was started after Shutdown was called

NewDaemon == Daemon([UPSTREAM_DNS_1 |-> "", UPSTREAM_DNS_2 |-> "",
                     RATE_LIMIT_PER_SECOND |-> <<>>, MAX_QUERIES_PER_IP |-> <<>>])

ServerStep(d) ==
    /\ server' = d
    /\ UNCHANGED <<now, used, threatTable, cache, H, logInFlight, logStalled,
                   updater, mock, api, goroutines, redis>>

\* cfg, err := config.Load(); if err != nil { log.Fatal(...) }
LoadConfig ==
    /\ server.pc = "load"
    /\ LET r == Load(server.env) IN
       ServerStep(IF r.err THEN [server EXCEPT !.pc = "exit", !.exitCode = 1]
                  ELSE [server EXCEPT !.cfg = r.cfg, !.pc = "new"])

\* dnsServer := dns.NewServer(&dns.Config{Address, Database, Cache, Metrics,
\* Logger}): the Upstreams field is left at its zero value
CreateServer ==
    /\ server.pc = "new"
    /\ ServerStep([server EXCEPT !.s = NewServer([Upstreams |-> <<>>]), !.pc = "go"])

\* go func() { if err := dnsServer.Start(); err != nil { log.Fatal } }();
\* main goes on to <-quit
GoStart ==
    /\ server.pc = "go"
    /\ ServerStep([server EXCEPT !.start = "spawned", !.pc = "wait"])

\* Start: s.server = &dns.Server{...}
StartAssign ==
    /\ server.start = "spawned"
    /\ server.pc # "exit"
    /\ ServerStep([server EXCEPT !.s.server = "new", !.start = "assigned"])

\* Start: s.setReady(true)
StartReady ==
    /\ server.start = "assigned"
    /\ server.pc # "exit"
    /\ ServerStep([server EXCEPT !.s.ready = TRUE, !.start = "listen"])

\* Start: s.server.ListenAndServe() binds the UDP socket, or fails to
Bind(ok) ==
    /\ server.start = "listen"
    /\ server.pc # "exit"
    /\ ServerStep(IF ok THEN [server EXCEPT !.s.server = "started", !.start = "serving"]
                  ELSE [server EXCEPT !.start = "failed"])

\* log.Fatal("DNS server failed to start"): the process exits
Fatal ==
    /\ server.start = "failed"
    /\ server.pc # "exit"
    /\ ServerStep([server EXCEPT !.pc = "exit", !.exitCode = 1])

\* the library reads a query from the socket and starts its handler
Query ==
    /\ server.s.server = "started"
    /\ server.pc # "exit"
    /\ server.handlers < MaxInflight
    /\ ServerStep([server EXCEPT !.handlers = server.handlers + 1,
                                 !.late = server.late \/ server.shutdown # "no"])

\* a handler returns
HandlerReturns ==
    /\ server.handlers > 0
    /\ server.pc # "exit"
    /\ ServerStep([server EXCEPT !.handlers = server.handlers - 1])

\* what Shutdown can read in s.server: Start writes the field without
\* synchronisation, so until Start's setReady has been ordered before
\* Shutdown's the write may not be visible
ReadServer(d) ==
    IF d.start = "assigned" THEN {"nil", d.s.server} ELSE {d.s.server}

\* <-quit, then dnsServer.Shutdown(ctx) up to the library's wait:
\* s.setReady(false); if s.server != nil { return s.server.ShutdownContext(ctx) };
\* return nil.  ShutdownContext returns an error at once for a server that
\* has not started, and otherwise stops the reading of queries.
Shutdown ==
    /\ server.pc = "wait"
    /\ \E srv \in ReadServer(server) :
          LET d == [server EXCEPT !.s.ready = FALSE] IN
          ServerStep(
            IF srv = "nil"
            THEN [d EXCEPT !.shutdown = "nil", !.left = server.handlers, !.pc = "stopped"]
            ELSE IF srv # "started"
            THEN [d EXCEPT !.shutdown = "err", !.left = server.handlers, !.pc = "stopped"]
            ELSE [d EXCEPT !.s.server = "closing", !.shutdown = "called",
                           !.pc = "shutdown"])

\* context.WithTimeout(context.Background(), 30*time.Second) expires
CtxDone ==
    /\ server.pc = "shutdown"
    /\ ~server.ctxDone
    /\ ServerStep([server EXCEPT !.ctxDone = TRUE])

\* ShutdownContext returns: the handlers have finished, or ctx is done
ShutdownReturns ==
    /\ server.pc = "shutdown"
    /\ server.handlers = 0 \/ server.ctxDone
    /\ ServerStep([server EXCEPT !.s.server = "closed",
                                 !.shutdown = IF server.handlers = 0 THEN "nil" ELSE "deadline",
                                 !.left = server.handlers,
                                 !.pc = "stopped"])

\* main returns: the process ends with whatever goroutines are running
Exit ==
    /\ server.pc = "stopped"
    /\ ServerStep([server EXCEPT !.pc = "exit", !.exitCode = 0])

---------------------------------------------------------------------------
(* db.MockConnection called from several goroutines.  The type has no      *)
(* mutex, so every access of threatDomains or queryLogs is a step.         *)

MaxGoCalls == 3

GoIds == {1, 2}

\* no concurrent use of a mock is going on
NoGoroutines == [g |-> <<>>]

\* the domains CheckThreatDomain and AddThreatDomain are called with
MockDomains == {"facebook.com", "evil.test"}

MockLiteral == {"malware-test.com", "phishing-example.org", "doubleclick.net",
                "googleadservices.com", "facebook.com"}

\* NewMockConnection(); a key that is not in the map has the zero value ""
NewMockConnection ==
    [threatDomains |->
        [d \in MockDomains \cup MockLiteral |->
            CASE d = "malware-test.com" -> "malware"
              [] d = "phishing-example.org" -> "phishing"
              [] d \in {"doubleclick.net", "googleadservices.com", "facebook.com"} -> "ads"
              [] OTHER -> ""],
     queryLogs |-> <<>>]

IdleGo == [op |-> "none", pc |-> "idle", arg |-> <<>>, local |-> <<>>, out |-> <<>>]

\* goroutines sharing one MockConnection
NewMockConnectionUsers ==
    [g |-> [i \in GoIds |-> IdleGo],
     m |-> NewMockConnection,
     calls |-> 0,
     logged |-> 0,                \* LogDNSQuery calls that have returned nil
     fatal |-> FALSE]             \* the runtime has thrown "concurrent map ..."

\* the calls made, with their arguments, and the first statement of each
MockConnectionCalls ==
    {[op |-> "CheckThreatDomain", pc |-> "mapaccess", arg |-> <<d>>] : d \in MockDomains}
    \cup {[op |-> "AddThreatDomain", pc |-> "mapassign", arg |-> <<d, "malware">>] :
            d \in MockDomains}
    \cup {[op |-> "LogDNSQuery", pc |-> "len", arg |-> <<"evil.test">>],
          [op |-> "GetQueryLogs", pc |-> "load", arg |-> <<>>],
          [op |-> "GetThreatStats", pc |-> "len", arg |-> <<>>]}

GoStep(r) ==
    /\ goroutines' = r
    /\ UNCHANGED <<now, used, threatTable, cache, H, logInFlight, logStalled,
                   updater, mock, api, server, redis>>

At(i, op, pc) ==
    /\ ~goroutines.fatal
    /\ goroutines.g[i].op = op
    /\ goroutines.g[i].pc = pc

Returns(i, out) ==
    [goroutines EXCEPT !.g[i].pc = "idle", !.g[i].out = out]

\* a goroutine calls a method of the MockConnection
GoCall(i, c) ==
    /\ At(i, goroutines.g[i].op, "idle")
    /\ goroutines.calls < MaxGoCalls
    /\ GoStep([goroutines EXCEPT !.g[i] = [IdleGo EXCEPT !.op = c.op, !.pc = c.pc,
                                                        !.arg = c.arg],
                                 !.calls = goroutines.calls + 1])

\* another goroutine is in the middle of an assignment to the map
MapWriter(i) == \E j \in GoIds \ {i} : goroutines.g[j].pc = "mapassigning"

\* CheckThreatDomain: threatType, exists := m.threatDomains[domain].  A read
\* during an assignment is a data race: the runtime throws "concurrent map
\* read and map write", or the read returns what it finds
MapAccess(i) ==
    /\ At(i, "CheckThreatDomain", "mapaccess")
    /\ \/ GoStep(Returns(i, <<goroutines.m.threatDomains[goroutines.g[i].arg[1]]>>))
       \/ MapWriter(i) /\ GoStep([goroutines EXCEPT !.fatal = TRUE])

\* AddThreatDomain: m.threatDomains[domain] = threatType begins; two
\* assignments at once make the runtime throw "concurrent map writes", or
\* go unnoticed
MapAssignBegin(i) ==
    /\ At(i, "AddThreatDomain", "mapassign")
    /\ \/ GoStep([goroutines EXCEPT !.g[i].pc = "mapassigning"])
       \/ MapWriter(i) /\ GoStep([goroutines EXCEPT !.fatal = TRUE])

\* the assignment is done
MapAssignEnd(i) ==
    /\ At(i, "AddThreatDomain", "mapassigning")
    /\ LET a == goroutines.g[i].arg IN
       GoStep([Returns(i, <<>>) EXCEPT !.m.threatDomains[a[1]] = a[2]])

\* LogDNSQuery: ID: fmt.Sprintf("mock-%d", len(m.queryLogs)+1)
LogLen(i) ==
    /\ At(i, "LogDNSQuery", "len")
    /\ GoStep([goroutines EXCEPT !.g[i].pc = "load",
                                 !.g[i].local = <<Len(goroutines.m.queryLogs) + 1>>])

\* LogDNSQuery: append(m.queryLogs, log) reads the slice
LogLoad(i) ==
    /\ At(i, "LogDNSQuery", "load")
    /\ GoStep([goroutines EXCEPT !.g[i].pc = "store",
                                 !.g[i].local = <<goroutines.g[i].local[1],
                                                  goroutines.m.queryLogs>>])

\* LogDNSQuery: m.queryLogs = <the slice read, with log appended>; return nil
LogStore(i) ==
    /\ At(i, "LogDNSQuery", "store")
    /\ LET r == goroutines.g[i]
           log == [ID |-> r.local[1], Domain |-> r.arg[1]]
       IN  GoStep([Returns(i, <<>>) EXCEPT !.m.queryLogs = Append(r.local[2], log),
                                           !.logged = goroutines.logged + 1])

\* GetQueryLogs: return m.queryLogs
QueryLogsLoad(i) ==
    /\ At(i, "GetQueryLogs", "load")
    /\ GoStep(Returns(i, goroutines.m.queryLogs))

\* GetThreatStats: TotalQueries: int64(len(m.queryLogs))
StatsTotal(i) ==
    /\ At(i, "GetThreatStats", "len")
    /\ GoStep([goroutines EXCEPT !.g[i].pc = "len2",
                                 !.g[i].local = <<Len(goroutines.m.queryLogs)>>])

\* GetThreatStats: AllowedQueries: int64(len(m.queryLogs)) - 15
StatsAllowed(i) ==
    /\ At(i, "GetThreatStats", "len2")
    /\ GoStep(Returns(i, [TotalQueries |-> goroutines.g[i].local[1],
                          BlockedQueries |-> 15,
                          AllowedQueries |-> Len(goroutines.m.queryLogs) - 15,
                          UniqueDomains |-> 10]))

---------------------------------------------------------------------------
(* cache.MockRedisClient called from several goroutines: sync.RWMutex, and *)
(* the statements of Get, Exists, GetTTL, Set and Delete between Lock and  *)
(* Unlock.  The map is mock.data.                                           *)

\* goroutines sharing one MockRedisClient; mutex: the goroutines holding the
\* read lock, and the one holding the write lock (0: none)
NewMockRedisClientUsers ==
    [g |-> [i \in GoIds |-> IdleGo],
     mutex |-> [readers |-> {}, writer |-> 0],
     calls |-> 0,
     fatal |-> FALSE]

ReadLocked == {"Get", "Exists", "GetTTL"}

MockRedisClientCalls ==
    {[op |-> op, arg |-> <<k>>] : op \in ReadLocked \cup {"Delete"}, k \in MockKeys}
    \cup {[op |-> "Set", arg |-> <<k, v, e>>] :
            k \in MockKeys, v \in MockValues, e \in MockExpirations}

\* a step of a goroutine that leaves the map as it is
LockStep(r) ==
    /\ goroutines' = r
    /\ UNCHANGED <<now, used, threatTable, cache, H, logInFlight, logStalled,
                   updater, mock, api, server, redis>>

\* a goroutine calls a method: it arrives at m.mutex.RLock() or m.mutex.Lock()
LockCall(i, c) ==
    /\ At(i, goroutines.g[i].op, "idle")
    /\ goroutines.calls < MaxGoCalls
    /\ LockStep([goroutines EXCEPT !.g[i] = [IdleGo EXCEPT !.op = c.op, !.pc = "lock",
                                                          !.arg = c.arg],
                                   !.calls = goroutines.calls + 1])

\* a goroutine is blocked in m.mutex.Lock()
WriterWaits ==
    \E j \in GoIds : goroutines.g[j].pc = "lock" /\ goroutines.g[j].op \notin ReadLocked

\* m.mutex.RLock() returns: no writer holds the lock or waits for it
RLock(i) ==
    /\ goroutines.g[i].op \in ReadLocked
    /\ At(i, goroutines.g[i].op, "lock")
    /\ goroutines.mutex.writer = 0
    /\ ~WriterWaits
    /\ LockStep([goroutines EXCEPT !.g[i].pc = "body",
                                   !.mutex.readers = goroutines.mutex.readers \cup {i}])

\* m.mutex.Lock() returns: nobody holds the lock
Lock(i) ==
    /\ goroutines.g[i].op \notin ReadLocked
    /\ At(i, goroutines.g[i].op, "lock")
    /\ goroutines.mutex.writer = 0
    /\ goroutines.mutex.readers = {}
    /\ LockStep([goroutines EXCEPT !.g[i].pc = "modify", !.mutex.writer = i])

\* Get and Exists find the key expired when time.Now().After(expiration),
\* GetTTL when time.Until(expiration) <= 0
FoundExpired(op, value) ==
    /\ value.exists
    /\ ~IsZero(value.expiration)
    /\ IF op = "GetTTL" THEN value.expiration - now <= 0 ELSE now > value.expiration

\* Get, Exists, GetTTL up to the return or to delete(m.data, key)
ReadBody(i) ==
    /\ goroutines.g[i].op \in ReadLocked
    /\ At(i, goroutines.g[i].op, "body")
    /\ LET r == goroutines.g[i]
           value == mock.data[r.arg[1]]
       IN  LockStep(
             IF FoundExpired(r.op, value)
             THEN [goroutines EXCEPT !.g[i].pc = "modify"]
             ELSE [goroutines EXCEPT !.g[i].pc = "unlock",
                     !.g[i].out =
                        CASE r.op = "Get" ->
                               IF value.exists THEN <<value.value, "nil">>
                               ELSE <<"", "key not found">>
                          [] r.op = "Exists" -> <<value.exists, "nil">>
                          [] OTHER ->
                               IF ~value.exists THEN <<-2, "nil">>
                               ELSE IF IsZero(value.expiration) THEN <<-1, "nil">>
                               ELSE <<value.expiration - now, "nil">>])

\* another goroutine is in the middle of a modification of the map
MapModifier(i) == \E j \in GoIds \ {i} : goroutines.g[j].pc = "modifying"

\* delete(m.data, key) or m.data[key] = mockValue{...} begins; two
\* modifications at once make the runtime throw "concurrent map writes", or
\* go unnoticed
ModifyBegin(i) ==
    /\ At(i, goroutines.g[i].op, "modify")
    /\ \/ LockStep([goroutines EXCEPT !.g[i].pc = "modifying"])
       \/ MapModifier(i) /\ LockStep([goroutines EXCEPT !.fatal = TRUE])

\* the modification is done: the map after it and what the call returns
ModifyEnd(i) ==
    /\ At(i, goroutines.g[i].op, "modifying")
    /\ LET r == goroutines.g[i]
           res == IF r.op = "Set" THEN MockSet(mock.data, r.arg[1], r.arg[2], r.arg[3])
                  ELSE MockDelete(mock.data, r.arg[1])
       IN  /\ mock' = [mock EXCEPT !.data = res.data]
           /\ goroutines' = [goroutines EXCEPT !.g[i].pc = "unlock",
                   !.g[i].out = CASE r.op = "Get" -> <<"", "key not found">>
                                  [] r.op = "Exists" -> <<FALSE, "nil">>
                                  [] r.op = "GetTTL" -> <<-2, "nil">>
                                  [] OTHER -> <<"nil">>]
    /\ UNCHANGED <<now, used, threatTable, cache, H, logInFlight, logStalled,
                   updater, api, server, redis>>

\* defer m.mutex.RUnlock() or defer m.mutex.Unlock(), and the return
Unlock(i) ==
    /\ At(i, goroutines.g[i].op, "unlock")
    /\ LockStep([goroutines EXCEPT
                    !.g[i].pc = "idle",
                    !.mutex = [readers |-> goroutines.mutex.readers \ {i},
                               writer |-> IF goroutines.mutex.writer = i THEN 0
                                          ELSE goroutines.mutex.writer]])

---------------------------------------------------------------------------
(* Spec: classification under a changing table, cache and clock.  Questions *)
(* carry one name; what follows the verdict is kept to the plain case.      *)

ClassifyStep(h) ==
    \/ CacheGetStep(h, BOOLEAN)
    \/ LookupStep(h, BOOLEAN)
    \/ CacheSetStep(h, BOOLEAN)

Init ==
    /\ now = 0
    /\ used = [ticks |-> 0, commits |-> 0, msgs |-> 0]
    /\ threatTable = [d \in TableDomains |-> NoRow]
    /\ cache = [k \in CacheKeys |-> NoEntry]
    /\ H = [h \in Handlers |-> IdleHandler]
    /\ logInFlight = 0
    /\ logStalled = FALSE
    /\ updater = Absent
    /\ mock = Absent
    /\ api = NoCall
    /\ server = Absent
    /\ goroutines = NoGoroutines
    /\ redis = Absent

Next ==
    \/ \E h \in Handlers, id \in MsgIds, n \in QNames : Receive(h, id, <<n>>)
    \/ \E h \in Handlers : ClassifyStep(h)
    \/ \E h \in Handlers : ExchangeStep(h, {"answer"})
    \/ \E h \in Handlers : WriteStep(h, {FALSE})
    \/ \E h \in Handlers : Return(h)
    \/ Environment

Spec == Init /\ [][Next]_vars

---------------------------------------------------------------------------
(* SpecForward: the whole handler, with every outcome of every collaborator *)
(* call and messages of zero, one and two questions, over a table that      *)
(* holds the rows init.sql seeds or none.                                   *)

\* init.sql: INSERT INTO threat_domains ... ('doubleclick.net', 'ads', 0.90, 'easylist')
SeededTable ==
    [d \in TableDomains |->
        IF d = Str_bc
        THEN [present |-> TRUE, threat_type |-> "ads", confidence |-> 90,
              created_at |-> 0, updated_at |-> 0]
        ELSE NoRow]

HandlerStep(h) ==
    \/ CacheGetStep(h, BOOLEAN)
    \/ LookupStep(h, BOOLEAN)
    \/ CacheSetStep(h, BOOLEAN)
    \/ ExchangeStep(h, Outcomes)
    \/ WriteStep(h, BOOLEAN)

InitForward ==
    /\ now = 0
    /\ used = [ticks |-> 0, commits |-> 0, msgs |-> 0]
    /\ threatTable \in {[d \in TableDomains |-> NoRow], SeededTable}
    /\ cache = [k \in CacheKeys |-> NoEntry]
    /\ H = [h \in Handlers |-> IdleHandler]
    /\ logInFlight = 0
    /\ logStalled = FALSE
    /\ updater = Absent
    /\ mock = Absent
    /\ api = NoCall
    /\ server = Absent
    /\ goroutines = NoGoroutines
    /\ redis = Absent

NextForward ==
    \/ \E h \in Handlers, id \in MsgIds, q \in Messages : Receive(h, id, q)
    \/ \E h \in Handlers : HandlerStep(h)
    \/ \E h \in Handlers : Return(h)

SpecForward == InitForward /\ [][NextForward]_vars

---------------------------------------------------------------------------
(* SpecLive: the handler with the query-log writer running beside it, over *)
(* the seeded table, under the fairness the Go scheduler and the per-call   *)
(* timeouts give a handler: every collaborator call returns, so a handler   *)
(* that can step does step.  The writer has no such guarantee.              *)

InitLive ==
    /\ now = 0
    /\ used = [ticks |-> 0, commits |-> 0, msgs |-> 0]
    /\ threatTable = SeededTable
    /\ cache = [k \in CacheKeys |-> NoEntry]
    /\ H = [h \in Handlers |-> IdleHandler]
    /\ logInFlight = 0
    /\ logStalled = FALSE
    /\ updater = Absent
    /\ mock = Absent
    /\ api = NoCall
    /\ server = Absent
    /\ goroutines = NoGoroutines
    /\ redis = Absent

NextLive ==
    \/ \E h \in Handlers, q \in Messages : Receive(h, 1, q)
    \/ \E h \in Handlers : HandlerStep(h)
    \/ \E h \in Handlers : Return(h)
    \/ LogWrite
    \/ LogStall

SpecLive ==
    /\ InitLive
    /\ [][NextLive]_vars
    /\ \A h \in Handlers : WF_vars(HandlerStep(h))

---------------------------------------------------------------------------
(* SpecLog: the handler and the goroutines logDNSQuery starts, with the     *)
(* outcome of every INSERT *)

NextLog ==
    \/ \E h \in Handlers, q \in Messages : Receive(h, 1, q)
    \/ \E h \in Handlers : HandlerStep(h)
    \/ \E h \in Handlers : Return(h)
    \/ \E err \in BOOLEAN : LogReturn(err)
    \/ LogStall

SpecLog == InitLive /\ [][NextLog]_vars

---------------------------------------------------------------------------
(* Properties of classification (Spec) *)

\* the handler holds the verdict of shouldBlockDomain for its current question
Classified(h) == H[h].ret # "none"

NoLookupFailed(h) == \A k \in 1..Len(H[h].lookups) : H[h].lookups[k].res # "err"

\* a proper suffix of the domain has had a blockable row since the question
\* was taken up
SuffixBlockableNow(h) == \E p \in H[h].startSuffix : BlockableRow(p)

C5_LookupErrorIsNotInTable ==
    \A h \in Handlers :
        (Classified(h) /\ ~NoLookupFailed(h))
        => /\ H[h].ret # "error"
           /\ H[h].delta.errors = 0
           /\ H[h].ret = "allowed" =>
                /\ Len(H[h].lookups) = NumParts(H[h].domain)
                /\ Len(H[h].sets) = 1
                /\ H[h].sets[1].value = "allowed"

\* the handler has written its verdict to the cache and the entry is in force
WroteEntry(h) ==
    /\ Classified(h)
    /\ Len(H[h].sets) = 1
    /\ H[h].sets[1].ok
    /\ now < H[h].sets[1].at + H[h].sets[1].ttl

\* some lookup of the classification returned a threat type
SomeLookupMatched(h) ==
    \E k \in 1..Len(H[h].lookups) : H[h].lookups[k].res \notin {"", "err"}

\* C11 as claimed: an unexpired cache entry "domain:"+d with value v is the
\* verdict an earlier classification of d obtained from the table, i.e. v is
\* "blocked" exactly when the row of d or of one of its suffixes was
\* blockable, and every classification served from the entry returns v.
\* Taken in the case most favourable to the claim: "allowed" is only expected
\* to be excluded when one and the same suffix was blockable from the moment
\* the question was taken up until now.
C11_EntryIsTableVerdict ==
    \A h \in Handlers :
        /\ WroteEntry(h) =>
             /\ cache[CacheKey(H[h].domain)].present
             /\ cache[CacheKey(H[h].domain)].value = H[h].sets[1].value
             /\ H[h].sets[1].value = "blocked" =>
                  \E k \in 1..Len(H[h].lookups) : H[h].lookups[k].blockable
             /\ H[h].sets[1].value = "allowed" => ~SuffixBlockableNow(h)
        /\ (Classified(h) /\ H[h].cacheRes \in {"blocked", "allowed"}) =>
             H[h].ret = H[h].cacheRes

\* C11 amended: an unexpired cache entry "domain:"+d with value v is the
\* verdict an earlier classification of d computed from its table lookups:
\* v is "blocked" exactly when one of the lookups returned a threat type (the
\* last one made, for a row that was blockable), and "allowed" when every
\* lookup either found no such row or, for a suffix, failed; a suffix whose
\* lookup failed may be blockable.  Every classification served from the
\* entry returns v and makes no lookup and no write.
C11_EntryIsClassifierVerdict ==
    \A h \in Handlers :
        /\ WroteEntry(h) =>
             /\ cache[CacheKey(H[h].domain)].present
             /\ cache[CacheKey(H[h].domain)].value = H[h].sets[1].value
             /\ H[h].sets[1].value = "blocked" <=> SomeLookupMatched(h)
             /\ H[h].sets[1].value = "blocked" =>
                  /\ H[h].lookups[Len(H[h].lookups)].res \notin {"", "err"}
                  /\ H[h].lookups[Len(H[h].lookups)].blockable
             /\ H[h].sets[1].value = "allowed" =>
                  /\ Len(H[h].lookups) = numPartsOf[H[h].domain]
                  /\ H[h].lookups[1].res = ""
                  /\ NoLookupFailed(h) => ~SuffixBlockableNow(h)
        /\ (Classified(h) /\ H[h].cacheRes \in {"blocked", "allowed"}) =>
             /\ H[h].ret = H[h].cacheRes
             /\ H[h].lookups = <<>>
             /\ H[h].sets = <<>>

\* C11 witness: a classification served from the "blocked" entry an earlier
\* classification wrote for a name whose suffix has a blockable row
C11_Witness ==
    \E h \in Handlers :
        /\ Classified(h)
        /\ H[h].cacheRes = "blocked"
        /\ H[h].ret = "blocked"
        /\ H[h].domain = Str_abc
        /\ ~threatTable[Str_abc].present
        /\ BlockableRow(Str_c)
        /\ cache[CacheKey(Str_abc)].present
        /\ cache[CacheKey(Str_abc)].value = "blocked"

\* C12: when the cache fails on every call of a classification (Get and
\* Set), the verdict is the one the table lookups alone give: "blocked"
\* exactly when a lookup returned a threat type, which it does for the first
\* name, the domain or a suffix, whose row has confidence >= 0.70 and is
\* recent; the cache errors are not returned, so the only error the handler
\* can see is that of the table lookup of the domain itself.
C12_CacheFailureIsMiss ==
    \A h \in Handlers :
        ( /\ Classified(h)
          /\ H[h].cacheRes = "err"
          /\ \A k \in 1..Len(H[h].sets) : ~H[h].sets[k].ok )
        => /\ H[h].ret = "error" <=>
                (Len(H[h].lookups) = 1 /\ H[h].lookups[1].res = "err")
           /\ H[h].ret = "error" <=> H[h].delta.errors = 1
           /\ H[h].ret # "error" => H[h].delta.errors = 0
           /\ H[h].ret = "blocked" <=> SomeLookupMatched(h)
           /\ NoLookupFailed(h) =>
                (H[h].ret = "blocked" <=>
                    \E k \in 1..Len(H[h].lookups) : H[h].lookups[k].fresh)
           /\ H[h].ret # "error" => Len(H[h].sets) = 1

\* C12 witness: Get and Set both failed and the suffix row gave the verdict
C12_Witness ==
    \E h \in Handlers :
        /\ Classified(h)
        /\ H[h].cacheRes = "err"
        /\ Len(H[h].sets) = 1
        /\ ~H[h].sets[1].ok
        /\ H[h].ret = "blocked"
        /\ Len(H[h].lookups) = 2
        /\ H[h].lookups[2].fresh
        /\ ~cache[CacheKey(H[h].domain)].present

---------------------------------------------------------------------------
(* Properties of the handler (SpecForward) *)

Done(h) == H[h].pc = "done"

\* a finished message with one question that was not blocked
SingleAllowed(h) ==
    /\ Done(h)
    /\ Len(H[h].req.question) = 1
    /\ H[h].verdicts = <<"allowed">>

\* every configured upstream was tried and failed (exchange error or timeout)
AllUpstreamsFailed(h) ==
    /\ Len(H[h].exch) = Len(Upstreams)
    /\ \A k \in 1..Len(H[h].exch) : H[h].exch[k].outcome = "timeout"

\* C3 as claimed: the response to a message in which some question was
\* blocked is NXDOMAIN with no answer records, AA=0, RA=1, QR=1, and carries
\* the id and the question section of the request, for any number of questions.
C3_BlockedResponse ==
    \A h \in Handlers :
        (Done(h) /\ \E k \in 1..Len(H[h].verdicts) : H[h].verdicts[k] = "blocked")
        => /\ H[h].sent.rcode = RcodeNameError
           /\ H[h].sent.answer = <<>>
           /\ ~H[h].sent.authoritative
           /\ H[h].sent.recursionAvailable
           /\ H[h].sent.response
           /\ H[h].sent.id = H[h].req.id
           /\ H[h].sent.question = H[h].req.question

\* C6 as claimed: when the forwarder stops on an upstream NXDOMAIN for a
\* question that is not blocked, the response has Rcode=NameError.
C6_UpstreamNxdomainPropagated ==
    \A h \in Handlers :
        ( /\ SingleAllowed(h)
          /\ Len(H[h].exch) >= 1
          /\ H[h].exch[Len(H[h].exch)].outcome = "nxdomain" )
        => H[h].sent.rcode = RcodeNameError

\* C7: the upstreams are contacted in configured order, one at a time, from
\* the first; every exchange but the last came back neither Success-with-
\* answers nor NameError; after such a reply no further upstream is contacted;
\* and the records returned are those of the upstream the loop stopped at.
C7_ForwardOrder ==
    \A h \in Handlers :
        LET e == H[h].exch IN
        /\ \A k \in 1..Len(e) :
              /\ e[k].up = k
              /\ k < Len(e) => e[k].outcome \notin {"answer", "nxdomain"}
        /\ (Len(e) >= 1 /\ e[Len(e)].outcome \in {"answer", "nxdomain"})
              => H[h].pc # "exchange"
        /\ (Len(e) >= 1 /\ e[Len(e)].outcome = "answer")
              => /\ Len(H[h].msg.answer) >= 1
                 /\ H[h].msg.answer[Len(H[h].msg.answer)] =
                        [name |-> Fqdn(H[h].domain), from |-> Upstreams[Len(e)]]
        /\ (H[h].pc = "exchange") => H[h].up = Len(e) + 1

\* C7 witness: the first upstream failed, the second answered, and the
\* response carries the second upstream's record
C7_Witness ==
    \E h \in Handlers :
        /\ Done(h)
        /\ Len(H[h].exch) = 2
        /\ H[h].exch[1].outcome = "timeout"
        /\ H[h].exch[2].outcome = "answer"
        /\ H[h].sent.answer = <<[name |-> Fqdn(H[h].domain), from |-> Upstreams[2]]>>

\* C8 as claimed: all upstreams failed for the one question of a message
\* whose name is not blocked: ServerFailure, no answers, errors_total +1,
\* allowed_total unchanged, cache content as before the query.  Taken where
\* the classifier returned no error and the response was written.
C8_AllFailedNoCacheUpdate ==
    \A h \in Handlers :
        ( /\ SingleAllowed(h)
          /\ AllUpstreamsFailed(h)
          /\ H[h].ret = "allowed"
          /\ ~H[h].writeErr )
        => /\ H[h].sent.rcode = RcodeServerFailure
           /\ H[h].sent.answer = <<>>
           /\ H[h].delta.errors = 1
           /\ H[h].delta.allowed = 0
           /\ cache = H[h].cache0

\* C8 amended: ServerFailure, no answers, allowed_total unchanged;
\* errors_total increases by 1 for the forwarder error, and by 1 more for a
\* lookup error the classifier returned and for a failed WriteMsg; the cache
\* is as before the query except for the classifier's own write: unless the
\* name was served from a cached "allowed", it has Set "domain:"+name ->
\* "allowed" with TTL 30 minutes (nothing is stored when that Set fails or the
\* lookup of the name itself failed).
C8_AllFailedOnlyClassifierWrites ==
    \A h \in Handlers :
        (SingleAllowed(h) /\ AllUpstreamsFailed(h))
        => LET k == CacheKey(H[h].domain) IN
           /\ H[h].sent.rcode = RcodeServerFailure
           /\ H[h].sent.answer = <<>>
           /\ H[h].delta.allowed = 0
           /\ H[h].delta.blocked = 0
           /\ H[h].delta.errors =
                1 + (IF H[h].ret = "error" THEN 1 ELSE 0) + (IF H[h].writeErr THEN 1 ELSE 0)
           /\ (H[h].cacheRes = "allowed" \/ H[h].ret = "error") =>
                (H[h].sets = <<>> /\ cache = H[h].cache0)
           /\ (H[h].cacheRes # "allowed" /\ H[h].ret # "error") =>
                /\ Len(H[h].sets) = 1
                /\ H[h].sets[1].key = k
                /\ H[h].sets[1].value = "allowed"
                /\ H[h].sets[1].ttl = TTLAllowed
                /\ cache = IF H[h].sets[1].ok
                           THEN [H[h].cache0 EXCEPT ![k] =
                                   [present |-> TRUE, value |-> "allowed",
                                    expiry |-> H[h].sets[1].at + TTLAllowed]]
                           ELSE H[h].cache0

\* C8 witness: both upstreams timed out after the classifier had cached "allowed"
C8_Witness ==
    \E h \in Handlers :
        /\ SingleAllowed(h)
        /\ AllUpstreamsFailed(h)
        /\ H[h].ret = "allowed"
        /\ ~H[h].writeErr
        /\ H[h].delta.errors = 1
        /\ Len(H[h].sets) = 1
        /\ H[h].sets[1].ok
        /\ cache # H[h].cache0

\* C9 as claimed: an upstream reply of Success with no answer records is
\* returned as a success, and the client gets Success with an empty answer
\* section, not ServerFailure.  Taken where every upstream contacted replied so.
C9_EmptySuccessIsSuccess ==
    \A h \in Handlers :
        ( /\ SingleAllowed(h)
          /\ Len(H[h].exch) >= 1
          /\ \A k \in 1..Len(H[h].exch) : H[h].exch[k].outcome = "nodata" )
        => /\ H[h].sent.rcode = RcodeSuccess
           /\ H[h].sent.answer = <<>>

\* C10 as claimed: a query whose name has an unexpired "blocked" entry under
\* "domain:"+normalized name is answered NXDOMAIN without a threat-table
\* lookup or an upstream exchange, and blocked_total and cache_hits each
\* increase by exactly 1.
C10_CachedBlock ==
    \A h \in Handlers :
        ( /\ Done(h)
          /\ Len(H[h].req.question) = 1
          /\ H[h].cache0[CacheKey(domainOf[H[h].req.question[1]])].present
          /\ H[h].cache0[CacheKey(domainOf[H[h].req.question[1]])].value = "blocked"
          /\ now < H[h].cache0[CacheKey(domainOf[H[h].req.question[1]])].expiry
          /\ H[h].cacheRes = "blocked" )
        => /\ H[h].sent.rcode = RcodeNameError
           /\ H[h].lookups = <<>>
           /\ H[h].exch = <<>>
           /\ H[h].delta.blocked = 1
           /\ H[h].delta.cacheHits = 1

\* C29: the response to a message with one allowed question that an upstream
\* answered carries the answer, authority and additional sections of that
\* upstream reply, unchanged.
C29_SectionsPassThrough ==
    \A h \in Handlers :
        ( /\ Done(h)
          /\ ~H[h].writeErr
          /\ Len(H[h].req.question) = 1
          /\ Len(H[h].exch) >= 1
          /\ H[h].exch[Len(H[h].exch)].outcome = "answer" )
        => LET reply == UpstreamReply(H[h].domain, H[h].exch[Len(H[h].exch)].up) IN
           /\ H[h].sent.answer = reply.answer
           /\ H[h].sent.ns = reply.ns
           /\ H[h].sent.extra = reply.extra

---------------------------------------------------------------------------
(* Properties of the handler beside the query-log writer (SpecLive) *)

\* the handler is between taking a message and writing its response
Busy(h) == H[h].pc \notin {"idle", "done"}

\* C4: every message handed to handleDNSRequest gets exactly one WriteMsg:
\* never more than one, and eventually one, whatever the cache, the threat
\* table, the upstreams and the query-log writer do; and a handler that has
\* not written yet can always take its next step, however many query-log
\* writes are outstanding and whether or not the writer is stalled.
C4_ExactlyOneResponse ==
    \A h \in Handlers :
        /\ [](H[h].writes <= 1)
        /\ [](Done(h) => H[h].writes = 1)
        /\ [](Busy(h) => H[h].writes = 0)
        /\ (Busy(h) ~> (Done(h) /\ H[h].writes = 1))

\* C4 witness: the one response has been written while a query-log write
\* started by this handler is outstanding and the writer is stalled
C4_Witness ==
    \E h \in Handlers :
        /\ Done(h)
        /\ H[h].writes = 1
        /\ H[h].logged >= 1
        /\ logInFlight >= H[h].logged
        /\ logStalled

\* the threat-updater process at the start of main
InitUpdater ==
    /\ now = 0
    /\ used = [ticks |-> 0, commits |-> 0, msgs |-> 0]
    /\ threatTable = [d \in TableDomains |-> NoRow]
    /\ cache = [k \in CacheKeys |-> NoEntry]
    /\ H = [h \in Handlers |-> IdleHandler]
    /\ logInFlight = 0
    /\ logStalled = FALSE
    /\ updater = NewUpdater
    /\ mock = Absent
    /\ api = NoCall
    /\ server = Absent
    /\ goroutines = NoGoroutines
    /\ redis = Absent

---------------------------------------------------------------------------
(* SpecUpdater: the threat-updater process from its start, with feeds whose *)
(* fetches succeed or fail, a reader of the table, a shutdown signal, and a *)
(* host that may keep the process from running for thirty days.             *)

UpdaterStepOrEvent ==
    \/ StartUpdater
    \/ SelectUpdate
    \/ SelectSignal
    \/ SelectCleanup
    \/ UpdateAllFeeds
    \/ UpdateAllAdBlockFeeds
    \/ BeginTx
    \/ CopyRow
    \/ ExecCopy
    \/ Commit
    \/ ScheduleNext
    \/ Wake
    \/ Signal
    \/ \E f \in FeedNames : Outage(f)
    \/ \E f \in FeedNames : Restore(f)
    \/ \E d \in DomainsOf(updater.allEntries) : ReaderLookup(d)

NextUpdater ==
    \/ UpdaterStepOrEvent
    \/ Elapse(MaxMinutes)
    \/ Suspend(MaxMinutes)

SpecUpdater == InitUpdater /\ [][NextUpdater]_vars

\* SpecHour: the same process observed for more than the hour of the cleanup timer
NextHour ==
    \/ UpdaterStepOrEvent
    \/ Elapse(MaxHourMinutes)
    \/ Suspend(MaxHourMinutes)

SpecHour == InitUpdater /\ [][NextHour]_vars

---------------------------------------------------------------------------
(* SpecTable: the operations of ThreatDB called on their own while time     *)
(* passes: upserts of single entries and cleanup passes.                    *)

MaxTableMinutes == 64800

\* fifteen days pass
Age ==
    /\ now < MaxTableMinutes
    /\ now' = now + (FreshWindow \div 2)
    /\ cache' = [k \in CacheKeys |-> NoEntry]
    /\ UNCHANGED <<used, threatTable, H, logInFlight, logStalled, updater, mock, api, server, goroutines, redis>>

NextTable ==
    \/ \E e \in FeedEntries : UpdateThreatEntry(e)
    \/ \E maxAge \in {MaxAgeMinutes, FreshWindow \div 2} : CleanupPass(maxAge)
    \/ Age
    \/ \E conn \in Connections, d \in TableDomains : CheckThreatDomainCall(conn, d)

SpecTable == Init /\ [][NextTable]_vars

---------------------------------------------------------------------------
(* SpecParse: each parser given each feed body *)

\* one call per behaviour
NextParse ==
    /\ api.op = "none"
    /\ \E parser \in Parsers : \E feed \in Feeds(parser) : Parse(parser, feed)

SpecParse == Init /\ [][NextParse]_vars

---------------------------------------------------------------------------
(* SpecMockDB: two goroutines calling one MockConnection *)

InitMockDB ==
    /\ now = 0
    /\ used = [ticks |-> 0, commits |-> 0, msgs |-> 0]
    /\ threatTable = [d \in TableDomains |-> NoRow]
    /\ cache = [k \in CacheKeys |-> NoEntry]
    /\ H = [h \in Handlers |-> IdleHandler]
    /\ logInFlight = 0
    /\ logStalled = FALSE
    /\ updater = Absent
    /\ mock = Absent
    /\ api = NoCall
    /\ server = Absent
    /\ goroutines = NewMockConnectionUsers
    /\ redis = Absent

NextMockDB ==
    \E i \in GoIds :
        \/ \E c \in MockConnectionCalls : GoCall(i, c)
        \/ MapAccess(i)
        \/ MapAssignBegin(i)
        \/ MapAssignEnd(i)
        \/ LogLen(i)
        \/ LogLoad(i)
        \/ LogStore(i)
        \/ QueryLogsLoad(i)
        \/ StatsTotal(i)
        \/ StatsAllowed(i)

SpecMockDB == InitMockDB /\ [][NextMockDB]_vars

---------------------------------------------------------------------------
(* SpecMockLock: two goroutines calling one MockRedisClient while time passes *)

InitMockLock ==
    /\ now = 0
    /\ used = [ticks |-> 0, commits |-> 0, msgs |-> 0]
    /\ threatTable = [d \in TableDomains |-> NoRow]
    /\ cache = [k \in CacheKeys |-> NoEntry]
    /\ H = [h \in Handlers |-> IdleHandler]
    /\ logInFlight = 0
    /\ logStalled = FALSE
    /\ updater = Absent
    /\ mock = NewMockRedisClient
    /\ api = NoCall
    /\ server = Absent
    /\ goroutines = NewMockRedisClientUsers
    /\ redis = Absent

NextMockLock ==
    \/ \E i \in GoIds :
          \/ \E c \in MockRedisClientCalls : LockCall(i, c)
          \/ RLock(i)
          \/ Lock(i)
          \/ ReadBody(i)
          \/ ModifyBegin(i)
          \/ ModifyEnd(i)
          \/ Unlock(i)
    \/ \E dt \in {TTLAllowed, FreshWindow} : Tick(dt)

SpecMockLock == InitMockLock /\ [][NextMockLock]_vars

---------------------------------------------------------------------------
(* SpecBoth: one sequence of calls made on a MockRedisClient and on a *)
(* RedisClient with an empty Redis server, at the same times *)

InitBoth ==
    /\ now = 0
    /\ used = [ticks |-> 0, commits |-> 0, msgs |-> 0]
    /\ threatTable = [d \in TableDomains |-> NoRow]
    /\ cache = [k \in CacheKeys |-> NoEntry]
    /\ H = [h \in Handlers |-> IdleHandler]
    /\ logInFlight = 0
    /\ logStalled = FALSE
    /\ updater = Absent
    /\ mock = NewMockRedisClient
    /\ api = NoCall
    /\ server = Absent
    /\ goroutines = NoGoroutines
    /\ redis = NewRedisClient

NextBoth ==
    \/ \E k \in MockKeys :
          BothCall("Get", k, <<>>, MockGet(mock.data, k), RedisGet(redis.data, k))
    \/ \E k \in MockKeys, v \in MockValues, e \in MockExpirations :
          BothCall("Set", k, v, MockSet(mock.data, k, v, e), RedisSet(redis.data, k, v, e))
    \/ \E k \in MockKeys :
          BothCall("Delete", k, <<>>, MockDelete(mock.data, k), RedisDelete(redis.data, k))
    \/ \E k \in MockKeys :
          BothCall("Exists", k, <<>>, MockExists(mock.data, k), RedisExists(redis.data, k))
    \/ \E k \in MockKeys, v \in MockValues, e \in MockExpirations :
          BothCall("SetNX", k, v, MockSetNX(mock.data, k, v, e),
                   RedisSetNX(redis.data, k, v, e))
    \/ \E k \in MockKeys :
          BothCall("Increment", k, <<>>, MockIncrement(mock.data, k),
                   RedisIncrement(redis.data, k))
    \/ \E k \in MockKeys, e \in MockExpirations :
          BothCall("IncrementWithExpiry", k, <<e>>,
                   MockIncrementWithExpiry(mock.data, k, e),
                   RedisIncrementWithExpiry(redis.data, k, e))
    \/ \E dt \in {TTLAllowed \div 2, TTLAllowed} : BothTick(dt)

SpecBoth == InitBoth /\ [][NextBoth]_vars

---------------------------------------------------------------------------
(* SpecTwo: two handler goroutines at work on queries for one name, spelt *)
(* in two ways, while ingestion commits to the threat table *)

TwoHandlers == {"h1", "h2"}

InitTwo ==
    /\ now = 0
    /\ used = [ticks |-> 0, commits |-> 0, msgs |-> 0]
    /\ threatTable = [d \in TableDomains |-> NoRow]
    /\ cache = [k \in CacheKeys |-> NoEntry]
    /\ H = [h \in TwoHandlers |-> IdleHandler]
    /\ logInFlight = 0
    /\ logStalled = FALSE
    /\ updater = Absent
    /\ mock = Absent
    /\ api = NoCall
    /\ server = Absent
    /\ goroutines = NoGoroutines
    /\ redis = Absent

NextTwo ==
    \/ \E h \in TwoHandlers, n \in {Str_abc, Str_ABCdot} : Receive(h, 1, <<n>>)
    \/ \E h \in TwoHandlers : ClassifyStep(h)
    \/ \E h \in TwoHandlers : ExchangeStep(h, {"answer"})
    \/ \E h \in TwoHandlers : WriteStep(h, {FALSE})
    \/ \E h \in TwoHandlers : Return(h)
    \/ \E es \in Batches : BatchInsertThreats(es)

SpecTwo == InitTwo /\ [][NextTwo]_vars

---------------------------------------------------------------------------
(* SpecRefetch: a feed that keeps its body, fetched and parsed in *)
(* successive update cycles *)

NextRefetch ==
    \/ /\ api.op = "none"
       /\ \E parser \in Parsers : \E feed \in Feeds(parser) : Refetch(parser, feed)
    \/ /\ api.op = "cycle"
       /\ Refetch(api.arg.parser, api.arg.feed)

SpecRefetch == Init /\ [][NextRefetch]_vars

---------------------------------------------------------------------------
(* SpecServer: the dns-filter daemon from the start of main to its exit, *)
(* under every environment *)

InitServer ==
    /\ now = 0
    /\ used = [ticks |-> 0, commits |-> 0, msgs |-> 0]
    /\ threatTable = [d \in TableDomains |-> NoRow]
    /\ cache = [k \in CacheKeys |-> NoEntry]
    /\ H = [h \in Handlers |-> IdleHandler]
    /\ logInFlight = 0
    /\ logStalled = FALSE
    /\ updater = Absent
    /\ mock = Absent
    /\ api = NoCall
    /\ server \in {Daemon(env) : env \in Envs}
    /\ goroutines = NoGoroutines
    /\ redis = Absent

NextServer ==
    \/ LoadConfig
    \/ CreateServer
    \/ GoStart
    \/ StartAssign
    \/ StartReady
    \/ \E ok \in BOOLEAN : Bind(ok)
    \/ Fatal
    \/ Query
    \/ HandlerReturns
    \/ Shutdown
    \/ CtxDone
    \/ ShutdownReturns
    \/ Exit

SpecServer == InitServer /\ [][NextServer]_vars

---------------------------------------------------------------------------
(* SpecMock: callers of a MockRedisClient while the clock advances *)

\* a MockRedisClient as NewMockRedisClient returns it
InitMock ==
    /\ now = 0
    /\ used = [ticks |-> 0, commits |-> 0, msgs |-> 0]
    /\ threatTable = [d \in TableDomains |-> NoRow]
    /\ cache = [k \in CacheKeys |-> NoEntry]
    /\ H = [h \in Handlers |-> IdleHandler]
    /\ logInFlight = 0
    /\ logStalled = FALSE
    /\ updater = Absent
    /\ mock = NewMockRedisClient
    /\ api = NoCall
    /\ server = Absent
    /\ goroutines = NoGoroutines
    /\ redis = Absent

NextMock ==
    \/ \E k \in MockKeys : Get(k)
    \/ \E k \in MockKeys, v \in MockValues, e \in MockExpirations : Set(k, v, e)
    \/ \E k \in MockKeys : Delete(k)
    \/ \E k \in MockKeys : Exists(k)
    \/ \E k \in MockKeys, v \in MockValues, e \in MockExpirations : SetNX(k, v, e)
    \/ \E k \in MockKeys : Increment(k)
    \/ \E k \in MockKeys, e \in MockExpirations : IncrementWithExpiry(k, e)
    \/ \E dt \in {TTLAllowed, FreshWindow} : Tick(dt)

SpecMock == InitMock /\ [][NextMock]_vars

---------------------------------------------------------------------------
(* Properties of the threat-updater (SpecUpdater, SpecHour) *)

\* BatchInsertThreats has returned to performUpdate
BatchReturned ==
    /\ updater.pc = "schedule"
    /\ Len(updater.cur.entries) > 0

\* the host has suspended the process at some point
Suspended == now >= MaxAgeMinutes

RowCount(table) == Cardinality({d \in TableDomains : table[d].present})

Max(S) == CHOOSE x \in S : \A y \in S : y <= x

\* the highest confidence among the entries of the batch for d and the row
\* the table held for d
MaxConfidence(entries, table, d) ==
    Max({entries[k].confidence : k \in {j \in 1..Len(entries) : entries[j].domain = d}}
        \cup (IF table[d].present THEN {table[d].confidence} ELSE {}))

\* IsThreatDomain(d) evaluated on a given content of the table
FoundIn(table, d) == table[d].present /\ table[d].created_at > now - FreshWindow

\* C14 as claimed: after BatchInsertThreats(E) the table holds, for every
\* domain of E, one row whose confidence is the highest of E's confidences
\* for the domain and of the row it held before.
C14_BatchKeepsMaxConfidence ==
    BatchReturned =>
        \A d \in DomainsOf(updater.cur.entries) :
            /\ threatTable[d].present
            /\ threatTable[d].confidence =
                   MaxConfidence(updater.cur.entries, updater.cur.table0, d)

\* C15 as claimed: an entry whose insertion fails, because its domain is in
\* the table or earlier in the batch, is skipped; the other entries are
\* committed and BatchInsertThreats returns no error.
C15_FailedEntrySkipped ==
    (BatchReturned /\ CopyFails(updater.cur.table0, updater.cur.entries)) =>
        /\ ~updater.cur.err
        /\ \A d \in DomainsOf(updater.cur.entries) : threatTable[d].present
        /\ \A d \in TableDomains :
              updater.cur.table0[d].present => threatTable[d] = updater.cur.table0[d]

\* C16: when performUpdate runs twice in a row and both runs fetch the same
\* entries from the feeds, the second run leaves as many rows as the first
\* and no row with a lower confidence: it leaves every row as it was.
C16_SecondRunChangesNothing ==
    ( /\ updater.pc = "schedule"
      /\ updater.cur.n >= 2
      /\ updater.cur.table0 = updater.prev.table1
      /\ updater.cur.entries = updater.prev.entries )
    => /\ RowCount(threatTable) = RowCount(updater.prev.table1)
       /\ \A d \in TableDomains :
             updater.prev.table1[d].present =>
                /\ threatTable[d].present
                /\ threatTable[d].confidence >= updater.prev.table1[d].confidence
       /\ threatTable = updater.prev.table1

\* C16 witness: the first run committed its rows, five minutes later the
\* second run fetched the same entries
C16_Witness ==
    /\ updater.pc = "schedule"
    /\ updater.cur.n >= 2
    /\ updater.prev.inserted
    /\ updater.cur.table0 = updater.prev.table1
    /\ updater.cur.entries = updater.prev.entries
    /\ updater.cur.start = updater.prev.end + SleepMinutes
    /\ RowCount(threatTable) = 2

\* C17: a reader sees none of the rows of a batch before its transaction
\* commits and all of them once it has; when BatchInsertThreats returns an
\* error the table is as it was before the call.
C17_BatchIsAtomic ==
    /\ updater.pc \in {"copy", "exec", "commit"} =>
          /\ threatTable = updater.cur.table0
          /\ updater.seen.read =>
                updater.seen.found = FoundIn(updater.cur.table0, updater.seen.domain)
    /\ (updater.pc = "schedule" /\ updater.cur.inserted) =>
          /\ \A k \in 1..Len(updater.cur.entries) :
                LET e == updater.cur.entries[k] IN
                /\ threatTable[e.domain].present
                /\ threatTable[e.domain].threat_type = e.threatType
                /\ threatTable[e.domain].confidence = e.confidence
                /\ threatTable[e.domain].created_at = updater.cur.end
          /\ \A d \in TableDomains \ DomainsOf(updater.cur.entries) :
                threatTable[d] = updater.cur.table0[d]
          /\ updater.seen.read => updater.seen.found
    /\ (updater.pc = "schedule" /\ updater.cur.err) =>
          threatTable = updater.cur.table0

\* C17 witness: a reader looks up a domain of the batch after both rows have
\* been handed to the COPY that will succeed, and does not find it
C17_Witness ==
    /\ updater.pc = "exec"
    /\ Len(updater.txn) = 2
    /\ ~CopyFails(threatTable, updater.txn)
    /\ updater.seen.read
    /\ updater.seen.domain = updater.txn[1].domain
    /\ ~updater.seen.found

\* C18 as claimed: a feed is fetched only when its own update interval has
\* elapsed since its last successful fetch, and a successful fetch is
\* recorded in the feed's last_updated.
C18_FetchOnlyAfterInterval ==
    updater.attempt.feed # "" =>
        /\ \/ IsZero(updater.attempt.prev)
           \/ updater.attempt.at - updater.attempt.prev >= updater.attempt.freq
        /\ updater.attempt.ok => updater.attempt.recorded = updater.attempt.at

\* C19 as claimed: the cleanup pass runs about once per hour, also while
\* update cycles are triggered every five minutes.  Taken as: a process that
\* has run for an hour and five minutes without being shut down or suspended
\* has made a cleanup pass.
C19_CleanupWithinTheHour ==
    ( /\ ~Suspended
      /\ updater.pc # "exited"
      /\ ~updater.sigChan
      /\ now >= CleanupMinutes + SleepMinutes )
    => updater.cleanups >= 1

\* C20: a cycle starts when the process starts; unless the process is shut
\* down, the next cycle starts five minutes after a cycle has ended, whether
\* it succeeded or failed; at most one trigger is pending, and a cycle
\* starts only after the one before it has ended.
C20_CycleEveryFiveMinutes ==
    /\ updater.updateChan <= UpdateChanCap
    /\ Cardinality(updater.sleepers) <= 1
    /\ ~updater.prev.running
    /\ (updater.cur.n = 0 /\ updater.pc # "exited") => now = 0
    /\ updater.cur.n >= 1 => updater.cur.start >= updater.prev.end
    /\ updater.cur.n = 1 => updater.cur.start = 0
    /\ (updater.cur.n >= 2 /\ ~Suspended) =>
          updater.cur.start = updater.prev.end + SleepMinutes
    /\ (updater.pc = "select" /\ updater.cur.n >= 1) =>
          \/ updater.updateChan = 1
          \/ updater.sleepers = {updater.cur.end + SleepMinutes}
    /\ (updater.pc = "select" /\ updater.cur.n >= 1 /\ ~Suspended) =>
          now <= updater.cur.end + SleepMinutes

\* C20 witness: a cycle that started five minutes after a cycle that failed
C20_Witness ==
    /\ updater.cur.n >= 2
    /\ updater.cur.running
    /\ updater.prev.err
    /\ updater.cur.start = updater.prev.end + SleepMinutes
    /\ updater.cur.start > updater.prev.start + SleepMinutes

\* what a feed is to contribute to a cycle: its entries when it is enabled,
\* due and its server answers with 200, nothing otherwise
Contribution(feed) ==
    IF /\ feed.IsEnabled
       /\ Since(feed.LastUpdated) >= feed.UpdateFreq
       /\ feed.Name \notin updater.down
    THEN FeedContent(feed.Name) ELSE <<>>

RECURSIVE Contributions(_, _)
Contributions(feeds, k) ==
    IF k = 0 THEN <<>> ELSE Contributions(feeds, k - 1) \o Contribution(feeds[k])

\* both range loops of the cycle have run and there is something to insert
FeedsRead == updater.pc = "begin"

---------------------------------------------------------------------------
(* Properties of ThreatDB (SpecTable) *)

\* a cleanup pass with the 30 days cleanupOldThreats passes has just run
CleanedUp == api.op = "CleanupOldThreats" /\ api.arg = MaxAgeMinutes /\ api.at = now

\* C21 as claimed: CleanupOldThreats(maxAge) deletes exactly the rows whose
\* updated_at is older than now - maxAge and leaves every other row as it
\* was; a row that classification treats as stale (IsThreatDomain does not
\* return it) is therefore gone after a cleanup with the same 30 days.
C21_CleanupRemovesStaleRows ==
    /\ api.op = "CleanupOldThreats" =>
          \A d \in TableDomains :
              threatTable[d] =
                  IF api.before[d].present /\ api.before[d].updated_at < api.at - api.arg
                  THEN NoRow ELSE api.before[d]
    /\ CleanedUp =>
          \A d \in TableDomains : threatTable[d].present => FoundIn(threatTable, d)

\* C21 amended: CleanupOldThreats(maxAge) deletes exactly the rows whose
\* updated_at is older than now - maxAge and leaves every other row as it
\* was.  Classification tests created_at, not updated_at, and counts a row
\* of exactly 30 days as stale: a stale row is removed by the 30-day cleanup
\* only if its updated_at is older than 30 days too; a row stays stored and
\* stale when it was upserted within the last 30 days or is exactly 30 days
\* old.
C21_CleanupRemovesRowsByUpdate ==
    /\ api.op = "CleanupOldThreats" =>
          \A d \in TableDomains :
              threatTable[d] =
                  IF api.before[d].present /\ api.before[d].updated_at < api.at - api.arg
                  THEN NoRow ELSE api.before[d]
    /\ CleanedUp =>
          \A d \in TableDomains :
              (threatTable[d].present /\ ~FoundIn(threatTable, d)) =>
                  \/ threatTable[d].updated_at > threatTable[d].created_at
                  \/ threatTable[d].updated_at = now - MaxAgeMinutes

\* C21 witness: a cleanup pass has deleted a row and kept another, which was
\* created more than 30 days ago and upserted since
C21_Witness ==
    /\ CleanedUp
    /\ \E d \in TableDomains : api.before[d].present /\ ~threatTable[d].present
    /\ \E d \in TableDomains :
          /\ threatTable[d].present
          /\ threatTable[d].created_at < now - MaxAgeMinutes
          /\ threatTable[d].updated_at > threatTable[d].created_at

---------------------------------------------------------------------------
\* C22: a row is used for blocking exactly when it is blockable: a lookup of
\* a domain returns a threat type if and only if the domain's row has
\* confidence >= 0.70 (0.70 itself included) and updated_at within the last
\* 30 days; the lookup leaves the table as it was.
C22_BlocksIffBlockable ==
    (api.op = "CheckThreatDomain" /\ api.at = now) =>
        /\ (api.out # "") <=> BlockableRow(api.arg.domain)
        /\ threatTable = api.before

---------------------------------------------------------------------------
(* Properties of the query-log writer (SpecLog) *)

\* the records the clients of the exploration can have logged: MaxMsgs
\* messages of at most two questions
MaxRecords == 2 * MaxMsgs

\* C28: the records waiting in the background writer are bounded, and a
\* record that is dropped is counted.  Taken as: however long the writer is
\* stalled, the records waiting stay fewer than the records handed over, and
\* the step that gives a record up increments a counter of the Collector.
C28_BacklogBoundedDropsCounted ==
    [][ /\ logInFlight' < MaxRecords
        /\ (logInFlight' < logInFlight /\ api'.op = "LogDNSQuery" /\ api'.out = "err")
             => \E h \in Handlers : H'[h].delta # H[h].delta ]_vars

---------------------------------------------------------------------------
(* Properties of the daemon (SpecServer) *)

\* C26: IsReady() is true only while the UDP socket is bound: false before
\* the bind has succeeded, false after a failed bind, and false from the
\* moment Shutdown is requested.
C26_ReadyOnlyWhileBound ==
    server.s.ready => (server.s.server = "started" /\ server.shutdown = "no")

\* C27: after Shutdown is called no handler is started for a new query, and
\* Shutdown returns once every handler in flight has finished or the
\* deadline has passed; handlers running at the deadline are left behind.
C27_ShutdownStopsAndWaits ==
    /\ ~server.late
    /\ server.shutdown \notin {"no", "called"} => (server.left = 0 \/ server.ctxDone)
    /\ server.shutdown = "deadline" => server.left > 0

\* a variable that is set to something strconv.Atoi rejects
InvalidInt(value) == value # <<>> /\ Atoi(value).err

\* C31: when RATE_LIMIT_PER_SECOND or MAX_QUERIES_PER_IP is set to a value
\* that is not an integer, config.Load returns an error and the daemon exits
\* with a non-zero code without creating or starting the DNS server.
C31_InvalidConfigIsFatal ==
    (/\ server.pc # "load"
     /\ \/ InvalidInt(server.env.RATE_LIMIT_PER_SECOND)
        \/ InvalidInt(server.env.MAX_QUERIES_PER_IP))
    => (/\ server.pc = "exit"
        /\ server.exitCode > 0
        /\ server.s.server = "nil"
        /\ server.start = "none")

\* C40: once Shutdown has returned, IsReady() is false and stays false, and
\* the DNS server is not serving and does not start to serve, whatever the
\* order of the steps of Start and Shutdown.
C40_StoppedAfterShutdown ==
    server.shutdown \notin {"no", "called"} =>
        (~server.s.ready /\ server.s.server # "started")

\* C30: the upstream list the DNS server forwards to is the UpstreamDNS list
\* of the loaded configuration: UPSTREAM_DNS_1, then UPSTREAM_DNS_2, with
\* the defaults 1.1.1.1:53 and 8.8.8.8:53 for a variable that is not set.
C30_UpstreamsFromEnvironment ==
    server.pc \notin {"load", "new"} =>
        /\ server.cfg.UpstreamDNS =
              << IF server.env.UPSTREAM_DNS_1 = "" THEN "1.1.1.1:53"
                 ELSE server.env.UPSTREAM_DNS_1,
                 IF server.env.UPSTREAM_DNS_2 = "" THEN "8.8.8.8:53"
                 ELSE server.env.UPSTREAM_DNS_2 >>
        /\ server.s.upstreams = server.cfg.UpstreamDNS

---------------------------------------------------------------------------
(* Properties of the feed parsers (SpecParse) *)

\* a parser has returned
Parsed == api.op = "parse"

\* the rows of a feed that give an entry, as runs of entries
ValidRuns(parser, feed) ==
    LET valid == SelectSeq(feed, LAMBDA r : RowEntry(parser, r.row) # <<>>) IN
    [k \in 1..Len(valid) |->
        [entry |-> RowEntry(parser, valid[k].row)[1], n |-> valid[k].n]]

RECURSIVE Total(_)
\* the number of entries in a sequence of runs
Total(runs) == IF runs = <<>> THEN 0 ELSE Head(runs).n + Total(Tail(runs))

RECURSIVE TakeRuns(_, _)
\* the first c entries of a sequence of runs
TakeRuns(runs, c) ==
    IF c = 0 \/ runs = <<>> THEN <<>>
    ELSE IF Head(runs).n >= c THEN << [Head(runs) EXCEPT !.n = c] >>
    ELSE <<Head(runs)>> \o TakeRuns(Tail(runs), c - Head(runs).n)

RECURSIVE RowsUpTo(_, _, _)
\* the number of rows of the feed up to and including its c-th valid row
\* (all of them when it has fewer)
RowsUpTo(parser, feed, c) ==
    IF c = 0 \/ feed = <<>> THEN 0
    ELSE IF RowEntry(parser, Head(feed).row) = <<>>
    THEN Head(feed).n + RowsUpTo(parser, Tail(feed), c)
    ELSE IF Head(feed).n >= c THEN c
    ELSE Head(feed).n + RowsUpTo(parser, Tail(feed), c - Head(feed).n)

\* C24: every entry a parser emits has a domain that is lowercase, 1 to 255
\* bytes long and matches the host-label grammar; a row whose domain is
\* empty or invalid yields no entry and the rows after it are still parsed.
C24_EntriesHaveValidDomains ==
    Parsed =>
        /\ \A k \in 1..Len(api.out.entries) :
              LET domain == api.out.entries[k].entry.domain IN
              /\ domain = ToLower(domain)
              /\ Len(domain) >= 1
              /\ Len(domain) <= 255
              /\ isValidDomain(domain)
        /\ RowCap(api.arg.parser) = 0 => api.out.read = Total(api.arg.feed)

---------------------------------------------------------------------------
(* Properties of MockRedisClient (SpecMock) *)

\* the last call found an entry whose expiration is the instant of the call
CalledAtExpiryInstant ==
    /\ mock.last.op # "none"
    /\ mock.last.pre.exists
    /\ mock.last.pre.expiration = mock.last.at

\* C13 as claimed: an entry whose expiry instant equals the current time is
\* absent for every operation: Get returns not found, Exists returns false,
\* SetNX stores the new value and returns true, Increment and
\* IncrementWithExpiry restart the count at 1.
C13_ExpiryInstantIsAbsent ==
    CalledAtExpiryInstant =>
        /\ mock.last.op = "Get" => mock.last.err
        /\ mock.last.op = "Exists" => ~mock.last.ok
        /\ mock.last.op = "SetNX" =>
              /\ mock.last.ok
              /\ mock.data[mock.last.key].value = mock.last.arg
        /\ mock.last.op \in {"Increment", "IncrementWithExpiry"} => mock.last.count = 1

---------------------------------------------------------------------------
(* The cache entries of the request path (SpecForward) *)

\* the key under which the name of a question is cached
KeyOfName(name) ==
    IF name \in {Str_abc, Str_ABCdot} THEN <<"domain:", "a", ".", "b", ".", "c">>
    ELSE <<"domain:", "d">>

\* the name of the question the handler is at
QName(h) == H[h].req.question[H[h].qi]

\* C38: every cache write of the request path is made under "domain:"
\* followed by the queried name in lowercase without its trailing dot, with
\* "blocked" for 1 hour or "allowed" for 30 minutes, and the entry it leaves
\* expires that long after the write; the cache read uses the same key, so
\* names that differ in case or in the trailing dot share one entry.
C38_CacheEntryKeyValueTTL ==
    \A h \in Handlers :
        (H[h].qi >= 1 /\ H[h].qi <= Len(H[h].req.question)) =>
            /\ \A k \in 1..Len(H[h].sets) :
                  LET set == H[h].sets[k] IN
                  /\ set.key = KeyOfName(QName(h))
                  /\ \/ set.value = "blocked" /\ set.ttl = 60
                     \/ set.value = "allowed" /\ set.ttl = 30
                  /\ set.ok =>
                        /\ cache[set.key].present
                        /\ cache[set.key].value = set.value
                        /\ cache[set.key].expiry = set.at + set.ttl
            /\ H[h].cacheRes \in {"blocked", "allowed"} =>
                  /\ H[h].cache0[KeyOfName(QName(h))].present
                  /\ H[h].cache0[KeyOfName(QName(h))].value = H[h].cacheRes
            /\ H[h].cacheRes = "miss" => ~H[h].cache0[KeyOfName(QName(h))].present

\* C38 witness: the query for A.B.C. finds the entry "domain:a.b.c" that an
\* earlier query left, and a query has written "allowed" for 30 minutes
C38_Witness ==
    \E h \in Handlers :
        /\ H[h].qi = 1
        /\ QName(h) = Str_ABCdot
        /\ H[h].cacheRes = "allowed"
        /\ H[h].cache0[<<"domain:", "a", ".", "b", ".", "c">>].expiry = 30

\* C39: a handled message adds exactly 1 to queries_total, and a message with
\* one question adds 1 to exactly one of blocked_total, allowed_total and
\* errors_total: blocked_total when the query was blocked, allowed_total when
\* an upstream answered it, errors_total when it failed.
C39_OneOutcomeCounter ==
    \A h \in Handlers :
        Done(h) =>
            /\ H[h].delta.queries = 1
            /\ Len(H[h].req.question) = 1 =>
                  /\ H[h].delta.blocked + H[h].delta.allowed + H[h].delta.errors = 1
                  /\ H[h].delta.blocked = 1 <=> H[h].ret = "blocked"

---------------------------------------------------------------------------
(* A feed longer than its cap over several cycles (SpecRefetch) *)

\* C37: when a feed has more valid rows than its cap, the rows after the
\* cap are ingested in a later cycle: after the second cycle every domain
\* of a valid row of the feed has been handed to ingestion.
C37_RemainderNextCycle ==
    (api.op = "cycle" /\ api.arg.n >= 2) =>
        RunDomains(ValidRuns(api.arg.parser, api.arg.feed)) \subseteq api.out.inserted

---------------------------------------------------------------------------
(* Shutdown of the threat-updater during a cycle (SpecUpdater) *)

\* performUpdate is running: from UpdateAllFeeds to the end of BatchInsertThreats
InCycle == updater.pc \in {"threatFeeds", "adFeeds", "begin", "copy", "exec", "commit"}

\* C36: once a shutdown signal has arrived during an update cycle, the cycle
\* is cancelled: it starts no further fetch of a feed and commits nothing
\* to the threat table.
C36_SignalAbortsCycle ==
    [][ (updater.sigChan /\ InCycle)
        => (/\ updater'.cur.fetched = updater.cur.fetched
            /\ threatTable' = threatTable) ]_vars

---------------------------------------------------------------------------
(* Concurrent classifications of one domain (SpecTwo) *)

\* the handler is between the receipt of a message and its return, and has
\* written a cache entry for the question it is at
HasSet(h) == H[h].pc # "idle" /\ Len(H[h].sets) > 0 /\ H[h].sets[1].ok

\* C35: two handlers that are classifying the same domain at the same time
\* write the same value under its cache key, whatever the table commits in
\* between, so the entry left in the cache is the same whichever Set is last.
C35_ConcurrentWritersAgree ==
    \A h1 \in TwoHandlers : \A h2 \in TwoHandlers \ {h1} :
        (/\ HasSet(h1)
         /\ HasSet(h2)
         /\ H[h1].sets[1].key = H[h2].sets[1].key)
        => H[h1].sets[1].value = H[h2].sets[1].value

---------------------------------------------------------------------------
(* Properties of MockConnection under concurrent callers (SpecMockDB) *)

\* the field of MockConnection a goroutine is about to read or write
Touches(i) ==
    LET r == goroutines.g[i] IN
    IF r.pc \in {"mapaccess", "mapassign", "mapassigning"} THEN {"threatDomains"}
    ELSE IF r.pc \in {"len", "len2", "load", "store"} THEN {"queryLogs"}
    ELSE {}

\* the goroutine is writing, or about to write, the field
Writes(i) == goroutines.g[i].pc \in {"mapassign", "mapassigning", "store"}

\* C32: MockConnection is safe under concurrent calls: no goroutine reads or
\* writes threatDomains or queryLogs while another goroutine writes the same
\* field, the runtime never aborts the program for a concurrent map access,
\* and every LogDNSQuery call that has returned has its record in queryLogs.
C32_MockConnectionThreadSafe ==
    /\ \A i \in GoIds : \A j \in GoIds \ {i} :
          Writes(i) => Touches(i) \cap Touches(j) = {}
    /\ ~goroutines.fatal
    /\ goroutines.logged <= Len(goroutines.m.queryLogs)

---------------------------------------------------------------------------
(* Properties of MockRedisClient under concurrent callers (SpecMockLock) *)

\* C33: a goroutine modifies the map of MockRedisClient only while it holds
\* the exclusive lock, so no two goroutines modify the map at the same time
\* and the runtime never aborts the program for concurrent map writes,
\* whatever mix of Get, Exists, GetTTL, Set and Delete runs and whether or
\* not the key has expired.
C33_ModifiesUnderExclusiveLock ==
    /\ \A i \in GoIds :
          goroutines.g[i].pc \in {"modify", "modifying"} => goroutines.mutex.writer = i
    /\ Cardinality({i \in GoIds : goroutines.g[i].pc = "modifying"}) <= 1
    /\ ~goroutines.fatal

---------------------------------------------------------------------------
(* MockRedisClient against RedisClient (SpecBoth) *)

\* C34: after any sequence of Get, Set, Delete, Exists, SetNX, Increment and
\* IncrementWithExpiry calls, made with the same arguments at the same times
\* on a MockRedisClient and on a RedisClient, the last call has returned the
\* same value, the same boolean, the same counter and an error on both
\* sides or on neither.
C34_MockReturnsWhatRedisReturns ==
    mock.last.op # "none" =>
        /\ mock.last.val = redis.last.val
        /\ mock.last.ok = redis.last.ok
        /\ mock.last.count = redis.last.count
        /\ mock.last.err = redis.last.err

===========================================================================
